---- MODULE Spec2Model ----
(***************************************************************************)
(* Vienna agent orchestration: the execution engine, the execution         *)
(* context, the agent envelope and the application loop's task record,     *)
(* modelled from src/src/core/execution_engine.py,                         *)
(* src/src/core/context_manager.py, src/src/agents/base_agent.py,          *)
(* src/src/database/models.py and src/main.py.                             *)
(*                                                                         *)
(* Text is a sequence of characters (one-character strings).  A Python     *)
(* value (str, int, None, list, dict) is a record of one fixed shape so    *)
(* that any two values can be compared:                                    *)
(*    k     the kind: "str", "int", "bool", "float", "none", "list", "map"  *)
(*    s     the text of a str, the digits of a float                       *)
(*    n     the number of an int, 1 or 0 for a bool                        *)
(*    keys  the keys of a dict, in insertion order (each a text)           *)
(*    items the elements of a list, or the values of a dict in key order   *)
(***************************************************************************)
EXTENDS Integers, Sequences, FiniteSets, TLC

VARIABLES
    tasks,              \* execution_plan.tasks: the Task objects, in plan order
    execution_type,     \* execution_plan.execution_type
    pc,                 \* where the command is: see EnginePc
    context,            \* ExecutionContext.task_results
    ordered_task_ids,   \* _execute_sequential: the topological order
    cursor,             \* _execute_sequential: position of the loop in the order
    results,            \* the results list execute returns
    threads,            \* _execute_parallel_async: state of each task's worker
    calls,              \* history: every agent.execute_task invocation
    db_tasks,           \* the persisted Task records (tasks collection)
    raised,             \* the exception that left ExecutionEngine.execute, if any
    env,                \* what the command meets: the agents and the database
    fn_pc,              \* single-call harness: "call" before the call, "ret" after
    fn_args,            \* single-call harness: the arguments of the call
    fn_ret,             \* single-call harness: what the call returned
    main_pc,            \* main: the call the loop is in: see InitMain
    user_input,         \* main: the line being processed
    conversation_history, \* main: the in-memory history of the session
    db_sessions,        \* the persisted Session record's conversation_history
    main_log,           \* history: what the loop has called and seen so far
    db_credentials,     \* the credentials collection: the record of each service
    callback_server,    \* the listener on localhost:8080: see InitAuth
    callback_handler,   \* OAuthCallbackHandler's class attributes
    auth_pc,            \* where ensure_*_auth is: "idle", "waiting" in join
    auth_log,           \* history: the call in progress and what it has done
    db_users,           \* the users collection: the User records
    db_session_ids,     \* the sessions collection: the session_id of each record
    db_indexes          \* the collections that have their unique index

engineVars == <<tasks, execution_type, pc, context, ordered_task_ids, cursor,
                results, threads, calls, db_tasks, raised, env>>

fnVars == <<fn_pc, fn_args, fn_ret>>

authVars == <<db_credentials, callback_server, callback_handler, auth_pc, auth_log>>

dataVars == <<db_users, db_session_ids, db_indexes>>

appVars == <<main_pc, user_input, conversation_history, db_sessions, main_log, authVars,
             dataVars>>

vars == <<engineVars, fnVars, appVars>>

\* the engine's variables while a single call is examined on its own
EngineUnused ==
    /\ tasks = <<>>
    /\ execution_type = "none"
    /\ pc = "unused"
    /\ context = <<>>
    /\ ordered_task_ids = <<>>
    /\ cursor = 0
    /\ results = <<>>
    /\ threads = <<>>
    /\ calls = <<>>
    /\ db_tasks = <<>>
    /\ raised = <<>>
    /\ env = <<>>

\* the single-call harness while the engine runs
HarnessUnused ==
    /\ fn_pc = "unused"
    /\ fn_args = <<>>
    /\ fn_ret = <<>>

\* the application loop while something else is examined on its own
AuthUnused ==
    /\ db_credentials = <<>>
    /\ callback_server = "unused"
    /\ callback_handler = <<>>
    /\ auth_pc = "unused"
    /\ auth_log = <<>>

DataUnused ==
    /\ db_users = <<>>
    /\ db_session_ids = <<>>
    /\ db_indexes = {}

AppUnused ==
    /\ main_pc = "unused"
    /\ user_input = <<>>
    /\ conversation_history = <<>>
    /\ db_sessions = <<>>
    /\ main_log = <<>>
    /\ AuthUnused
    /\ DataUnused

----------------------------------------------------------------------------
(* Text *)

\* "\n".join / ", ".join
RECURSIVE Join(_, _)
Join(sep, parts) ==
    IF Len(parts) = 0 THEN <<>>
    ELSE IF Len(parts) = 1 THEN parts[1]
    ELSE parts[1] \o sep \o Join(sep, Tail(parts))

\* str.replace(old, new): leftmost, non-overlapping occurrences
RECURSIVE Replace(_, _, _)
Replace(s, old, new) ==
    IF Len(old) = 0 \/ Len(s) < Len(old) THEN s
    ELSE IF SubSeq(s, 1, Len(old)) = old
         THEN new \o Replace(SubSeq(s, Len(old) + 1, Len(s)), old, new)
         ELSE <<s[1]>> \o Replace(Tail(s), old, new)

\* old in s
RECURSIVE Contains(_, _)
Contains(s, old) ==
    IF Len(s) < Len(old) THEN FALSE
    ELSE SubSeq(s, 1, Len(old)) = old \/ Contains(Tail(s), old)

DigitChars == <<"0", "1", "2", "3", "4", "5", "6", "7", "8", "9">>

\* str(n) of an int
RECURSIVE NatText(_)
NatText(n) ==
    IF n < 10 THEN <<DigitChars[n + 1]>>
    ELSE NatText(n \div 10) \o <<DigitChars[(n % 10) + 1]>>

IntText(n) == IF n < 0 THEN <<"-">> \o NatText(0 - n) ELSE NatText(n)

----------------------------------------------------------------------------
(* Python values *)

VStr(t)        == [k |-> "str",    s |-> t,    n |-> 0, keys |-> <<>>, items |-> <<>>]
VInt(i)        == [k |-> "int",    s |-> <<>>, n |-> i, keys |-> <<>>, items |-> <<>>]
VBool(b)       == [k |-> "bool",   s |-> <<>>, n |-> IF b THEN 1 ELSE 0,
                                    keys |-> <<>>, items |-> <<>>]
VFloat(t)      == [k |-> "float",  s |-> t,    n |-> 0, keys |-> <<>>, items |-> <<>>]
VNone          == [k |-> "none",   s |-> <<>>, n |-> 0, keys |-> <<>>, items |-> <<>>]
VList(xs)      == [k |-> "list",   s |-> <<>>, n |-> 0, keys |-> <<>>, items |-> xs]
VMap(ks, xs)   == [k |-> "map",    s |-> <<>>, n |-> 0, keys |-> ks,   items |-> xs]

HasKey(m, key) == m.k = "map" /\ \E i \in 1..Len(m.keys) : m.keys[i] = key

KeyIndex(m, key) == CHOOSE i \in 1..Len(m.keys) : m.keys[i] = key

\* m[key] for a key that is present
Lookup(m, key) == m.items[KeyIndex(m, key)]

\* m.get(key, default)
GetOr(m, key, default) == IF HasKey(m, key) THEN Lookup(m, key) ELSE default

\* m[key] = v: a present key keeps its place, a new key goes last
Put(m, key, v) ==
    IF HasKey(m, key)
    THEN [m EXCEPT !.items[KeyIndex(m, key)] = v]
    ELSE [m EXCEPT !.keys = Append(m.keys, key), !.items = Append(m.items, v)]

\* repr() of a str: quotes, with the newline and the backslash escaped
RECURSIVE EscapeText(_)
EscapeText(t) ==
    IF Len(t) = 0 THEN <<>>
    ELSE (CASE t[1] = "\n" -> <<"\\", "n">>
            [] t[1] = "\\" -> <<"\\", "\\">>
            [] OTHER       -> <<t[1]>>) \o EscapeText(Tail(t))

\* repr(v), as str() of a list or dict shows its elements
RECURSIVE Repr(_)
Repr(v) ==
    CASE v.k = "str"  -> <<"'">> \o EscapeText(v.s) \o <<"'">>
      [] v.k = "int"  -> IntText(v.n)
      [] v.k = "bool" -> IF v.n = 1 THEN <<"T", "r", "u", "e">>
                                    ELSE <<"F", "a", "l", "s", "e">>
      [] v.k = "float" -> v.s
      [] v.k = "list" ->
            <<"[">> \o Join(<<",", " ">>, [i \in 1..Len(v.items) |-> Repr(v.items[i])])
                    \o <<"]">>
      [] v.k = "map"  ->
            <<"{">> \o Join(<<",", " ">>,
                            [i \in 1..Len(v.items) |->
                                <<"'">> \o EscapeText(v.keys[i]) \o <<"'", ":", " ">>
                                        \o Repr(v.items[i])])
                    \o <<"}">>
      [] OTHER        -> <<"N", "o", "n", "e">>

\* str(v), as an f-string shows a value
PyStr(v) == IF v.k = "str" THEN v.s ELSE Repr(v)

----------------------------------------------------------------------------
(* ExecutionEngine._fill_template *)

\* the text that stands for one value in a filled template
FormatValue(value) ==
    CASE value.k = "list" ->
            Join(<<"\n">>, [i \in 1..Len(value.items) |->
                              IntText(i) \o <<".", " ">> \o PyStr(value.items[i])])
      [] value.k = "map" ->
            Join(<<"\n">>, [i \in 1..Len(value.items) |->
                              value.keys[i] \o <<":", " ">> \o PyStr(value.items[i])])
      [] OTHER -> PyStr(value)

Placeholder(key) == <<"{">> \o key \o <<"}">>

\* the loop over data.items(), from the i-th item on
RECURSIVE FillFrom(_, _, _)
FillFrom(result, data, i) ==
    IF i > Len(data.keys) THEN result
    ELSE FillFrom(Replace(result, Placeholder(data.keys[i]), FormatValue(data.items[i])),
                  data, i + 1)

fill_template(template, data) == FillFrom(template, data, 1)

----------------------------------------------------------------------------
(* ExecutionContext: task_results is a dict from task id to result *)

\* ExecutionContext.__init__: no result stored
EmptyContext == VMap(<<>>, <<>>)

\* a store that loses the result
store_nothing(ctx, task_id, result) == ctx

\* a store that keeps the result of the first task only
store_first_only(ctx, task_id, result) ==
    IF Len(ctx.keys) = 0 THEN Put(ctx, task_id, result) ELSE ctx

\* every result kept under a new entry, also for an id already present
store_appending(ctx, task_id, result) ==
    VMap(Append(ctx.keys, task_id), Append(ctx.items, result))

\* ExecutionContext.store_result
store_result(ctx, task_id, result) == Put(ctx, task_id, result)

\* ExecutionContext.get_result: None when nothing is stored for task_id
get_result(ctx, task_id) == GetOr(ctx, task_id, VNone)

\* bool(v): None, 0, "", [] and {} are false
Truthy(v) ==
    CASE v.k = "str"  -> Len(v.s) > 0
      [] v.k = "int"  -> v.n # 0
      [] v.k = "bool" -> v.n # 0
      [] v.k = "float" -> v.s # <<"0", ".", "0">>
      [] v.k = "list" -> Len(v.items) > 0
      [] v.k = "map"  -> Len(v.items) > 0
      [] OTHER        -> FALSE

----------------------------------------------------------------------------
(* ExecutionEngine._extract_required_data *)

HasChar(t, ch) == \E i \in 1..Len(t) : t[i] = ch

FirstIndex(t, ch) == CHOOSE i \in 1..Len(t) : t[i] = ch /\ \A j \in 1..(i - 1) : t[j] # ch

\* t.split(ch)
RECURSIVE SplitOn(_, _)
SplitOn(t, ch) ==
    IF ~HasChar(t, ch) THEN <<t>>
    ELSE <<SubSeq(t, 1, FirstIndex(t, ch) - 1)>>
            \o SplitOn(SubSeq(t, FirstIndex(t, ch) + 1, Len(t)), ch)

\* t.split(".", 1): the text before the first "." and the text after it
SplitOnce(t, ch) ==
    IF ~HasChar(t, ch) THEN <<t>>
    ELSE <<SubSeq(t, 1, FirstIndex(t, ch) - 1), SubSeq(t, FirstIndex(t, ch) + 1, Len(t))>>

IsDigit(ch) == \E d \in 1..10 : DigitChars[d] = ch

DigitValue(ch) == (CHOOSE d \in 1..10 : DigitChars[d] = ch) - 1

RECURSIVE DigitsValue(_, _)
DigitsValue(t, acc) ==
    IF Len(t) = 0 THEN acc ELSE DigitsValue(Tail(t), 10 * acc + DigitValue(t[1]))

AllDigits(t) == Len(t) > 0 /\ \A i \in 1..Len(t) : IsDigit(t[i])

\* t.strip() of blanks
RECURSIVE Strip(_)
Strip(t) ==
    IF Len(t) > 0 /\ t[1] = " " THEN Strip(Tail(t))
    ELSE IF Len(t) > 0 /\ t[Len(t)] = " " THEN Strip(SubSeq(t, 1, Len(t) - 1))
    ELSE t

\* int(t): blanks around, a sign, digits; ValueError (ok = FALSE) for any
\* other text
ParseInt(t) ==
    LET u == Strip(t)
    IN  IF AllDigits(u) THEN [ok |-> TRUE, n |-> DigitsValue(u, 0)]
        ELSE IF Len(u) > 1 /\ u[1] = "-" /\ AllDigits(Tail(u))
             THEN [ok |-> TRUE, n |-> 0 - DigitsValue(Tail(u), 0)]
        ELSE IF Len(u) > 1 /\ u[1] = "+" /\ AllDigits(Tail(u))
             THEN [ok |-> TRUE, n |-> DigitsValue(Tail(u), 0)]
        ELSE [ok |-> FALSE, n |-> 0]

Failed == [ok |-> FALSE, v |-> VNone]
Found(v) == [ok |-> TRUE, v |-> v]

\* indexing that counts from one
SubscriptFromOne(container, index) ==
    LET len == IF container.k = "list" THEN Len(container.items) ELSE Len(container.s)
        pos == IF index < 0 THEN len + index + 1 ELSE index
    IN  IF container.k \notin {"list", "str"} \/ pos < 1 \/ pos > len THEN Failed
        ELSE IF container.k = "list" THEN Found(container.items[pos])
        ELSE Found(VStr(<<container.s[pos]>>))

\* seq[index] of a list or a str: a negative index counts from the end,
\* IndexError outside; TypeError / KeyError for any other container
Subscript(container, index) ==
    LET len == IF container.k = "list" THEN Len(container.items) ELSE Len(container.s)
        pos == IF index < 0 THEN len + index + 1 ELSE index + 1
    IN  IF container.k \notin {"list", "str"} \/ pos < 1 \/ pos > len THEN Failed
        ELSE IF container.k = "list" THEN Found(container.items[pos])
        ELSE Found(VStr(<<container.s[pos]>>))

\* one segment of the field path applied to value (lines 186-192)
WalkField(value, field) ==
    IF HasChar(field, "[") /\ HasChar(field, "]")
    THEN LET field_name == SplitOn(field, "[")[1]
             index      == ParseInt(SplitOn(SplitOn(field, "[")[2], "]")[1])
         IN  IF ~index.ok \/ ~HasKey(value, field_name) THEN Failed
             ELSE Subscript(Lookup(value, field_name), index.n)
    ELSE IF value.k # "map" THEN Failed
         ELSE Found(GetOr(value, field, value))

\* the loop over field_path.split("."), from the i-th segment on
RECURSIVE WalkFrom(_, _, _)
WalkFrom(value, fields, i) ==
    IF i > Len(fields) THEN Found(value)
    ELSE LET step == WalkField(value, fields[i])
         IN  IF step.ok THEN WalkFrom(step.v, fields, i + 1) ELSE Failed

\* the body of the loop for one required input: Failed stands for both
\* `continue` statements (no source result, exception caught)
ExtractOne(ctx, source_path) ==
    LET parts         == SplitOnce(source_path, ".")
        task_id       == parts[1]
        field_path    == IF Len(parts) > 1 THEN parts[2] ELSE <<>>
        source_result == get_result(ctx, task_id)
    IN  IF ~Truthy(source_result) THEN Failed
        ELSE IF Len(field_path) = 0 THEN Found(source_result)
        ELSE WalkFrom(source_result, SplitOn(field_path, "."), 1)

\* the loop over required_inputs.items(), from the i-th item on
RECURSIVE ExtractFrom(_, _, _, _)
ExtractFrom(extracted, ctx, required_inputs, i) ==
    IF i > Len(required_inputs.keys) THEN extracted
    ELSE LET one == ExtractOne(ctx, required_inputs.items[i].s)
         IN  ExtractFrom(IF one.ok THEN Put(extracted, required_inputs.keys[i], one.v)
                                   ELSE extracted,
                         ctx, required_inputs, i + 1)

\* the extraction given up at the first required input whose lookup fails
extract_until_first_error(ctx, required_inputs) ==
    LET n      == Len(required_inputs.keys)
        failed == {i \in 1..n : ~ExtractOne(ctx, required_inputs.items[i].s).ok}
        last   == IF failed = {} THEN n
                  ELSE (CHOOSE i \in failed : \A j \in failed : i <= j) - 1
    IN  ExtractFrom(VMap(<<>>, <<>>), ctx,
                    VMap(SubSeq(required_inputs.keys, 1, last),
                         SubSeq(required_inputs.items, 1, last)), 1)

extract_required_data(ctx, required_inputs) ==
    ExtractFrom(VMap(<<>>, <<>>), ctx, required_inputs, 1)

----------------------------------------------------------------------------
(* Texts used by the plans, the envelopes and the examples *)

\* the texts of base_agent.py: the keys and values of the envelope, the
\* message of the type check, the retryable types and keywords
AgentText ==
    [ status |-> <<"s", "t", "a", "t", "u", "s">>,
      data |-> <<"d", "a", "t", "a">>,
      metadata |-> <<"m", "e", "t", "a", "d", "a", "t", "a">>,
      error |-> <<"e", "r", "r", "o", "r">>,
      success |-> <<"s", "u", "c", "c", "e", "s", "s">>,
      type |-> <<"t", "y", "p", "e">>,
      message |-> <<"m", "e", "s", "s", "a", "g", "e">>,
      api_calls |-> <<"a", "p", "i", "_", "c", "a", "l", "l", "s">>,
      agent_type |-> <<"a", "g", "e", "n", "t", "_", "t", "y", "p", "e">>,
      retryable |-> <<"r", "e", "t", "r", "y", "a", "b", "l", "e">>,
      execution_time |-> <<"e", "x", "e", "c", "u", "t", "i", "o", "n", "_",
        "t", "i", "m", "e">>,
      timestamp |-> <<"t", "i", "m", "e", "s", "t", "a", "m", "p">>,
      user_id |-> <<"u", "s", "e", "r", "_", "i", "d">>,
      ValueError |-> <<"V", "a", "l", "u", "e", "E", "r", "r", "o", "r">>,
      TaskAgentType |-> <<"T", "a", "s", "k", " ", "a", "g", "e", "n", "t",
        " ", "t", "y", "p", "e", " ", "'">>,
      DoesNotMatch |-> <<"'", " ", "d", "o", "e", "s", " ", "n", "o", "t",
        " ", "m", "a", "t", "c", "h", " ", "a", "g", "e", "n", "t", " ", "t",
        "y", "p", "e", " ", "'">>,
      ConnectionError |-> <<"C", "o", "n", "n", "e", "c", "t", "i", "o", "n",
        "E", "r", "r", "o", "r">>,
      TimeoutError |-> <<"T", "i", "m", "e", "o", "u", "t", "E", "r", "r",
        "o", "r">>,
      HTTPError |-> <<"H", "T", "T", "P", "E", "r", "r", "o", "r">>,
      RateLimitError |-> <<"R", "a", "t", "e", "L", "i", "m", "i", "t", "E",
        "r", "r", "o", "r">>,
      ServerError |-> <<"S", "e", "r", "v", "e", "r", "E", "r", "r", "o",
        "r">>,
      timeout |-> <<"t", "i", "m", "e", "o", "u", "t">>,
      rate_limit |-> <<"r", "a", "t", "e", " ", "l", "i", "m", "i", "t">>,
      temporarily |-> <<"t", "e", "m", "p", "o", "r", "a", "r", "i", "l",
        "y">>,
      try_again |-> <<"t", "r", "y", " ", "a", "g", "a", "i", "n">> ]

\* the texts of execution_engine.py: the agent types it knows and its errors
EngineText ==
    [ gmail |-> <<"g", "m", "a", "i", "l">>,
      github |-> <<"g", "i", "t", "h", "u", "b">>,
      UnknownAgentType |-> <<"U", "n", "k", "n", "o", "w", "n", " ", "a",
        "g", "e", "n", "t", " ", "t", "y", "p", "e", ":", " ">>,
      DependencyError |-> <<"D", "e", "p", "e", "n", "d", "e", "n", "c", "y",
        "E", "r", "r", "o", "r">>,
      CannotExecute |-> <<"C", "a", "n", "n", "o", "t", " ", "e", "x", "e",
        "c", "u", "t", "e", " ">>,
      Dependency |-> <<":", " ", "d", "e", "p", "e", "n", "d", "e", "n", "c",
        "y", " ">>,
      FailedSuffix |-> <<" ", "f", "a", "i", "l", "e", "d">>,
      CircularDependency |-> <<"C", "i", "r", "c", "u", "l", "a", "r", " ",
        "d", "e", "p", "e", "n", "d", "e", "n", "c", "y", " ", "d", "e", "t",
        "e", "c", "t", "e", "d", " ", "i", "n", " ", "t", "a", "s", "k", " ",
        "g", "r", "a", "p", "h">> ]

\* what the agents, the registry, the OAuth flow and the MongoDB client raise
RaisedText ==
    [ Exception |-> <<"E", "x", "c", "e", "p", "t", "i", "o", "n">>,
      RuntimeError |-> <<"R", "u", "n", "t", "i", "m", "e", "E", "r", "r",
        "o", "r">>,
      RegistryNotLoaded |-> <<"A", "g", "e", "n", "t", " ", "r", "e", "g",
        "i", "s", "t", "r", "y", " ", "n", "o", "t", " ", "l", "o", "a", "d",
        "e", "d">>,
      OAuthTimedOut |-> <<"A", "u", "t", "h", "o", "r", "i", "z", "a", "t",
        "i", "o", "n", " ", "c", "o", "d", "e", " ", "n", "o", "t", " ", "r",
        "e", "c", "e", "i", "v", "e", "d", ".", " ", "O", "A", "u", "t", "h",
        " ", "f", "l", "o", "w", " ", "t", "i", "m", "e", "d", " ", "o", "u",
        "t", ".">>,
      MissingParams |-> <<"M", "i", "s", "s", "i", "n", "g", " ", "r", "e",
        "q", "u", "i", "r", "e", "d", " ", "p", "a", "r", "a", "m", "e", "t",
        "e", "r", "s", ":", " ", "b", "o", "d", "y">>,
      RateLimited |-> <<"R", "a", "t", "e", " ", "l", "i", "m", "i", "t",
        " ", "e", "x", "c", "e", "e", "d", "e", "d", ".", " ", "P", "l", "e",
        "a", "s", "e", " ", "w", "a", "i", "t", " ", "b", "e", "f", "o", "r",
        "e", " ", "r", "e", "t", "r", "y", "i", "n", "g", ".">>,
      NotFound |-> <<"R", "e", "p", "o", "s", "i", "t", "o", "r", "y", " ",
        "'", "a", "l", "p", "h", "a", "'", " ", "n", "o", "t", " ", "f", "o",
        "u", "n", "d">>,
      MongoDown |-> <<"C", "o", "u", "l", "d", " ", "n", "o", "t", " ", "c",
        "o", "n", "n", "e", "c", "t", " ", "t", "o", " ", "M", "o", "n", "g",
        "o", "D", "B", ":", " ", "c", "o", "n", "n", "e", "c", "t", "i", "o",
        "n", " ", "r", "e", "f", "u", "s", "e", "d">> ]

\* the texts of the plans: ids, parameters, paths and payloads
PlanText ==
    [ task_1 |-> <<"t", "a", "s", "k", "_", "1">>,
      task_2 |-> <<"t", "a", "s", "k", "_", "2">>,
      task_3 |-> <<"t", "a", "s", "k", "_", "3">>,
      repo_names |-> <<"r", "e", "p", "o", "_", "n", "a", "m", "e", "s">>,
      repo_list |-> <<"r", "e", "p", "o", "_", "l", "i", "s", "t">>,
      first_repo |-> <<"f", "i", "r", "s", "t", "_", "r", "e", "p", "o">>,
      alpha |-> <<"a", "l", "p", "h", "a">>,
      beta |-> <<"b", "e", "t", "a">>,
      gamma |-> <<"g", "a", "m", "m", "a">>,
      count |-> <<"c", "o", "u", "n", "t">>,
      HiTemplate |-> <<"H", "i", ",", "\n", "{", "r", "e", "p", "o", "_",
        "l", "i", "s", "t", "}">>,
      slack |-> <<"s", "l", "a", "c", "k">>,
      default_user |-> <<"d", "e", "f", "a", "u", "l", "t", "_", "u", "s",
        "e", "r">>,
      body |-> <<"b", "o", "d", "y">>,
      to |-> <<"t", "o">>,
      peter |-> <<"p", "e", "t", "e", "r", "@", "e", "x", "a", "m", "p", "l",
        "e", ".", "c", "o", "m">>,
      limit |-> <<"l", "i", "m", "i", "t">>,
      sent |-> <<"s", "e", "n", "t">>,
      message_id |-> <<"m", "e", "s", "s", "a", "g", "e", "_", "i", "d">>,
      m1 |-> <<"m", "1">>,
      NoPlaceholder |-> <<"H", "i">> ]

HiFilled == <<"H", "i", ",", "\n", "1", ".", " ", "a", "l", "p", "h", "a", "\n",
                "2", ".", " ", "b", "e", "t", "a">>

UpperChars ==
    <<"A", "B", "C", "D", "E", "F", "G", "H", "I", "J", "K", "L", "M", "N",
      "O", "P", "Q", "R", "S", "T", "U", "V", "W", "X", "Y", "Z">>
LowerChars ==
    <<"a", "b", "c", "d", "e", "f", "g", "h", "i", "j", "k", "l", "m", "n",
      "o", "p", "q", "r", "s", "t", "u", "v", "w", "x", "y", "z">>

\* all texts over alphabet of length at most n
RECURSIVE TextsUpTo(_, _)
TextsUpTo(alphabet, n) ==
    IF n = 0 THEN {<<>>}
    ELSE LET shorter == TextsUpTo(alphabet, n - 1)
         IN  shorter \cup {Append(t, ch) : t \in shorter, ch \in alphabet}

----------------------------------------------------------------------------
(* Template filling on its own: _fill_template called on a template and   *)
(* extracted data                                                          *)

MaxTemplateLen == 4

TemplateAlphabet == {"{", "}", "a", "b"}

FillValues ==
    { VStr(<<"x">>), VStr(<<"b">>), VStr(<<"{", "b", "}">>), VInt(12), VNone,
      VList(<<>>), VList(<<VStr(<<"x">>), VStr(<<"y">>)>>),
      VMap(<<<<"x">>, <<"y">>>>, <<VStr(<<"p">>), VInt(7)>>) }

FillData ==
    {VMap(<<>>, <<>>)}
      \cup {VMap(<<<<"a">>>>, <<v>>) : v \in FillValues}
      \cup {VMap(<<<<"a">>, <<"b">>>>, <<v, VStr(<<"x">>)>>) : v \in FillValues}
      \cup {VMap(<<<<"b">>, <<"a">>>>, <<VStr(<<"x">>), v>>) : v \in FillValues}

FillInputs ==
    {[template |-> t, data |-> d] : t \in TextsUpTo(TemplateAlphabet, MaxTemplateLen),
                                    d \in FillData}
      \cup {[template |-> PlanText.HiTemplate,
             data |-> VMap(<<PlanText.repo_list>>, <<VList(<<VStr(PlanText.alpha), VStr(PlanText.beta)>>)>>)]}

InitFill ==
    /\ EngineUnused
    /\ AppUnused
    /\ fn_pc = "call"
    /\ fn_args \in FillInputs
    /\ fn_ret = <<>>

\* the call returns
FillTemplate ==
    /\ fn_pc = "call"
    /\ fn_pc' = "ret"
    /\ fn_ret' = fill_template(fn_args.template, fn_args.data)
    /\ UNCHANGED <<fn_args, engineVars, appVars>>

NextFill == FillTemplate

SpecFill == InitFill /\ [][NextFill]_vars

\* The placeholder of some name of data starts the text t
MatchAt(t, data) ==
    {i \in 1..Len(data.keys) :
        /\ Len(t) >= Len(Placeholder(data.keys[i]))
        /\ SubSeq(t, 1, Len(Placeholder(data.keys[i]))) = Placeholder(data.keys[i])}

\* The template with every placeholder occurrence replaced by the text of
\* its value and every other character kept: one pass over the template
RECURSIVE Substituted(_, _)
Substituted(t, data) ==
    IF Len(t) = 0 THEN <<>>
    ELSE IF MatchAt(t, data) # {}
         THEN LET i == CHOOSE j \in MatchAt(t, data) : TRUE
              IN  FormatValue(data.items[i])
                    \o Substituted(SubSeq(t, Len(Placeholder(data.keys[i])) + 1, Len(t)), data)
         ELSE <<t[1]>> \o Substituted(Tail(t), data)

\* C9: _fill_template replaces every occurrence of {name} in the template by
\* the text of the extracted value for name (a list as numbered lines, a map
\* as "key: value" lines, a scalar as its text) and leaves the text outside
\* the placeholders of the template unchanged; "Hi,\n{repo_list}" with
\* [alpha, beta] gives "Hi,\n1. alpha\n2. beta".
C9_FillReplacesPlaceholders ==
    fn_pc = "ret" =>
        /\ fn_ret = Substituted(fn_args.template, fn_args.data)
        /\ fn_args.template = PlanText.HiTemplate => fn_ret = HiFilled

----------------------------------------------------------------------------
(* Data extraction on its own: _extract_required_data called on a context  *)
(* and one required input                                                  *)

MaxIndex == 2
MaxSegments == 2

\* results a task may have stored (store_result is only ever given a
\* non-empty dict)
StoredResults ==
    { VMap(<<PlanText.repo_names>>, <<VList(<<VStr(PlanText.alpha), VStr(PlanText.beta), VStr(PlanText.gamma)>>)>>),
      VMap(<<<<"a">>, <<"b">>, PlanText.count>>,
           << VMap(<<<<"b">>, <<"a">>>>,
                   <<VList(<<VStr(<<"x">>), VStr(<<"y">>)>>), VStr(<<"s", "t">>)>>),
              VList(<<VStr(<<"p">>), VInt(5)>>),
              VInt(2) >>),
      VMap(<<<<"a">>>>, <<VList(<<VMap(<<<<"b">>>>, <<VNone>>)>>)>>) }

\* a segment of a field path: name, or name[index]
Segments ==
    {[name |-> nm, indexed |-> FALSE, index |-> 0] : nm \in {<<"a">>, <<"b">>, PlanText.repo_names}}
      \cup {[name |-> nm, indexed |-> TRUE, index |-> i] :
                nm \in {<<"a">>, <<"b">>, PlanText.repo_names}, i \in (0 - 1)..MaxIndex}

RECURSIVE SegmentLists(_)
SegmentLists(n) ==
    IF n = 0 THEN {<<>>}
    ELSE LET shorter == SegmentLists(n - 1)
         IN  shorter \cup {Append(l, sg) : l \in shorter, sg \in Segments}

SegmentText(sg) ==
    IF sg.indexed THEN sg.name \o <<"[">> \o IntText(sg.index) \o <<"]">> ELSE sg.name

\* "<task_id>.<segment>.<segment>..."
PathText(task_id, segs) ==
    Join(<<".">>, <<task_id>> \o [i \in 1..Len(segs) |-> SegmentText(segs[i])])

\* paths that are not of the form above: an index that is no number, an
\* empty index, an empty segment, a lone bracket
OddPaths ==
    { PlanText.task_1 \o <<".", "a", "[", "x", "]">>,
      PlanText.task_1 \o <<".", "b", "[", "]">>,
      PlanText.task_1 \o <<".", "b", "[", "+", "1", "]">>,
      PlanText.task_1 \o <<".", "a", ".", ".", "b">>,
      PlanText.task_1 \o <<".", "a", "[", "0">>,
      PlanText.task_1 \o <<".">> }

ExtractInputs ==
    {[ctx |-> VMap(<<PlanText.task_1>>, <<r>>), param |-> PlanText.first_repo, task |-> t,
      segs |-> l, structured |-> TRUE, path |-> PathText(t, l)] :
         r \in StoredResults, t \in {PlanText.task_1, PlanText.task_2}, l \in SegmentLists(MaxSegments)}
      \cup
    {[ctx |-> VMap(<<PlanText.task_1>>, <<r>>), param |-> PlanText.first_repo, task |-> PlanText.task_1,
      segs |-> <<>>, structured |-> FALSE, path |-> p] :
         r \in StoredResults, p \in OddPaths}

InitExtract ==
    /\ EngineUnused
    /\ AppUnused
    /\ fn_pc = "call"
    /\ fn_args \in ExtractInputs
    /\ fn_ret = <<>>

\* the call returns
ExtractRequiredData ==
    /\ fn_pc = "call"
    /\ fn_pc' = "ret"
    /\ fn_ret' = extract_required_data(fn_args.ctx,
                                       VMap(<<fn_args.param>>, <<VStr(fn_args.path)>>))
    /\ UNCHANGED <<fn_args, engineVars, appVars>>

NextExtract == ExtractRequiredData

SpecExtract == InitExtract /\ [][NextExtract]_vars

\* What the path says, read off its segments: name[i] is element i
\* (counted from 0) of the list under name, a plain name is the value under
\* that key, or the current value when the key is absent
Resolvable(value, sg) ==
    /\ value.k = "map"
    /\ sg.indexed => /\ HasKey(value, sg.name)
                     /\ Lookup(value, sg.name).k = "list"
                     /\ sg.index >= 0
                     /\ sg.index < Len(Lookup(value, sg.name).items)

Resolved(value, sg) ==
    IF sg.indexed THEN Lookup(value, sg.name).items[sg.index + 1]
    ELSE IF HasKey(value, sg.name) THEN Lookup(value, sg.name)
    ELSE value

RECURSIVE ResolvableAll(_, _)
ResolvableAll(value, segs) ==
    \/ Len(segs) = 0
    \/ /\ Resolvable(value, segs[1])
       /\ ResolvableAll(Resolved(value, segs[1]), Tail(segs))

RECURSIVE ResolvedAll(_, _)
ResolvedAll(value, segs) ==
    IF Len(segs) = 0 THEN value ELSE ResolvedAll(Resolved(value, segs[1]), Tail(segs))

ExampleExtractInput ==
    [ctx |-> VMap(<<PlanText.task_1>>,
                  <<VMap(<<PlanText.repo_names>>,
                         <<VList(<<VStr(PlanText.alpha), VStr(PlanText.beta), VStr(PlanText.gamma)>>)>>)>>),
     param |-> PlanText.first_repo, task |-> PlanText.task_1,
     segs |-> <<[name |-> PlanText.repo_names, indexed |-> TRUE, index |-> 0]>>,
     structured |-> TRUE,
     path |-> PlanText.task_1 \o <<".">> \o PlanText.repo_names \o <<"[", "0", "]">>]

\* C8: a source path "<task_id>.<path>" is resolved against the stored result
\* of <task_id>: name[i] yields element i of the list under name, a plain
\* segment the value under that key or, when the key is absent, the current
\* value unchanged; {repo_names: [alpha, beta, gamma]} with
\* {first_repo: "task_1.repo_names[0]"} yields {first_repo: alpha}.
C8_ExtractResolvesPath ==
    fn_pc = "ret" =>
        /\ ( /\ fn_args.structured
             /\ HasKey(fn_args.ctx, fn_args.task)
             /\ ResolvableAll(Lookup(fn_args.ctx, fn_args.task), fn_args.segs) )
           => fn_ret = VMap(<<fn_args.param>>,
                            <<ResolvedAll(Lookup(fn_args.ctx, fn_args.task), fn_args.segs)>>)
        /\ fn_args = ExampleExtractInput
           => fn_ret = VMap(<<PlanText.first_repo>>, <<VStr(PlanText.alpha)>>)

\* the example of C8 has been extracted
C8_Witness ==
    /\ fn_pc = "ret"
    /\ fn_args = ExampleExtractInput
    /\ fn_ret = VMap(<<PlanText.first_repo>>, <<VStr(PlanText.alpha)>>)

\* a plain segment naming an absent key, then an indexed one, has been resolved
C8_AbsentKeyKept ==
    /\ fn_pc = "ret"
    /\ fn_args.structured
    /\ Len(fn_args.segs) = 2
    /\ HasKey(fn_args.ctx, fn_args.task)
    /\ ~fn_args.segs[1].indexed
    /\ ~HasKey(Lookup(fn_args.ctx, fn_args.task), fn_args.segs[1].name)
    /\ fn_args.segs[2].indexed
    /\ ResolvableAll(Lookup(fn_args.ctx, fn_args.task), fn_args.segs)
    /\ Len(fn_ret.keys) = 1

----------------------------------------------------------------------------
(* BaseAgent: execute_task, format_output, handle_error                    *)
(*                                                                         *)
(* A call either returns a value or raises an exception (an Exception      *)
(* subclass, given by the name of its class and its message).  calls is    *)
(* the number of times the step called _increment_api_calls.               *)

NoException == [type |-> <<>>, message |-> <<>>]

Returned(v, n) == [raised |-> FALSE, exc |-> NoException, value |-> v, calls |-> n]

Raised(type, message, n) ==
    [raised |-> TRUE, exc |-> [type |-> type, message |-> message], value |-> VNone,
     calls |-> n]

\* the elapsed time and the clock are whatever they are: one reading of each
ElapsedSeconds == VFloat(<<"0", ".", "5">>)
UtcNow == VStr(<<"2", "0", "2", "5", "-", "0", "1", "-", "0", "1">>)

\* str.lower()
RECURSIVE Lower(_)
Lower(t) ==
    IF Len(t) = 0 THEN <<>>
    ELSE (IF \E i \in 1..26 : UpperChars[i] = t[1]
          THEN <<LowerChars[CHOOSE i \in 1..26 : UpperChars[i] = t[1]]>>
          ELSE <<t[1]>>) \o Lower(Tail(t))

\* BaseAgent._is_retryable_error
is_retryable_error(error) ==
    \/ error.type \in {AgentText.ConnectionError, AgentText.TimeoutError, AgentText.HTTPError,
                       AgentText.RateLimitError, AgentText.ServerError}
    \/ \E keyword \in {AgentText.timeout, AgentText.rate_limit, AgentText.temporarily, AgentText.try_again} :
            Contains(Lower(error.message), keyword)

\* BaseAgent.format_output
format_output(self, raw_data, api_calls) ==
    VMap(<<AgentText.status, AgentText.data, AgentText.metadata, AgentText.error>>,
         << VStr(AgentText.success),
            raw_data,
            VMap(<<AgentText.execution_time, AgentText.api_calls, AgentText.timestamp, AgentText.agent_type, AgentText.user_id>>,
                 <<ElapsedSeconds, VInt(api_calls), UtcNow, VStr(self.agent_type),
                   VStr(self.user_id)>>),
            VNone >>)

\* BaseAgent.handle_error
handle_error(self, error, api_calls) ==
    VMap(<<AgentText.status, AgentText.data, AgentText.metadata, AgentText.error>>,
         << VStr(AgentText.error),
            VNone,
            VMap(<<AgentText.execution_time, AgentText.api_calls, AgentText.timestamp, AgentText.agent_type, AgentText.user_id,
                   AgentText.retryable>>,
                 <<ElapsedSeconds, VInt(api_calls), UtcNow, VStr(self.agent_type),
                   VStr(self.user_id), VBool(is_retryable_error(error))>>),
            VMap(<<AgentText.type, AgentText.message>>, <<VStr(error.type), VStr(error.message)>>) >>)

\* the try block of execute_task, up to the call of format_output: the
\* first step that raises ends it.  behaviour says what authenticate,
\* validate_parameters and execute do when they are called.
TryExecuteTask(self, task, behaviour) ==
    IF task.agent_type # self.agent_type
    THEN Raised(AgentText.ValueError,
                AgentText.TaskAgentType \o task.agent_type \o AgentText.DoesNotMatch
                    \o self.agent_type \o <<"'">>, 0)
    ELSE IF self.oauth_required /\ behaviour.authenticate.raised
    THEN behaviour.authenticate
    ELSE LET auth_calls == IF self.oauth_required THEN behaviour.authenticate.calls ELSE 0
         IN  IF behaviour.validate_parameters.raised
             THEN [behaviour.validate_parameters EXCEPT !.calls = auth_calls]
             ELSE [behaviour.execute EXCEPT !.calls = auth_calls + behaviour.execute.calls]

\* execute_task without its except clause
execute_task_uncaught(self, task, behaviour) ==
    LET tried == TryExecuteTask(self, task, behaviour)
    IN  IF ~tried.raised
        THEN Returned(format_output(self, tried.value, tried.calls), tried.calls)
        ELSE tried

\* BaseAgent.execute_task: every exception of the model is an instance of
\* Exception, so the except clause catches each of them
execute_task(self, task, behaviour) ==
    LET tried == TryExecuteTask(self, task, behaviour)
    IN  IF ~tried.raised
        THEN Returned(format_output(self, tried.value, tried.calls), tried.calls)
        ELSE Returned(handle_error(self, tried.exc, tried.calls), tried.calls)

----------------------------------------------------------------------------
(* execute_task on every outcome of its three steps                        *)

MaxApiCalls == 2

\* what an agent's execute returns on success
RawResults ==
    { VMap(<<PlanText.repo_names, PlanText.count>>, <<VList(<<VStr(PlanText.alpha), VStr(PlanText.beta)>>), VInt(2)>>),
      VMap(<<PlanText.sent, PlanText.message_id>>, <<VBool(TRUE), VStr(PlanText.m1)>>),
      VMap(<<>>, <<>>) }

AuthenticateOutcomes ==
    { Returned(VBool(TRUE), n) : n \in 0..1 }
        \cup { Raised(RaisedText.Exception, RaisedText.OAuthTimedOut, 0) }

ValidateOutcomes ==
    { Returned(VBool(TRUE), 0), Raised(AgentText.ValueError, RaisedText.MissingParams, 0) }

ExecuteOutcomes ==
    { Returned(raw, n) : raw \in RawResults, n \in 0..MaxApiCalls }
        \cup { Raised(RaisedText.Exception, RaisedText.RateLimited, n) : n \in 1..MaxApiCalls }
        \cup { Raised(AgentText.ValueError, RaisedText.NotFound, n) : n \in 1..MaxApiCalls }

Agents ==
    [agent_type : {EngineText.gmail, EngineText.github}, user_id : {PlanText.default_user},
     oauth_required : BOOLEAN]

AgentInputs ==
    [self : Agents,
     task : [agent_type : {EngineText.gmail, EngineText.github}],
     behaviour : [authenticate : AuthenticateOutcomes,
                  validate_parameters : ValidateOutcomes,
                  execute : ExecuteOutcomes]]

InitAgent ==
    /\ fn_pc = "call"
    /\ fn_args \in AgentInputs
    /\ fn_ret = <<>>
    /\ EngineUnused
    /\ AppUnused

ExecuteTask ==
    /\ fn_pc = "call"
    /\ fn_ret' = execute_task(fn_args.self, fn_args.task, fn_args.behaviour)
    /\ fn_pc' = "ret"
    /\ UNCHANGED <<fn_args, engineVars, appVars>>

NextAgent == ExecuteTask

SpecAgent == InitAgent /\ [][NextAgent]_vars

\* every step that execute_task calls returned
AllStepsSucceeded(args) ==
    /\ args.task.agent_type = args.self.agent_type
    /\ args.self.oauth_required => ~args.behaviour.authenticate.raised
    /\ ~args.behaviour.validate_parameters.raised
    /\ ~args.behaviour.execute.raised

IsEnvelope(v) ==
    v.k = "map" /\ v.keys = <<AgentText.status, AgentText.data, AgentText.metadata, AgentText.error>>

\* C6: execute_task never raises.  It returns an envelope; when every step
\* succeeded the status is "success" and the error is null; when a step
\* raised the status is "error", the data is null and the error carries a
\* kind and a message.
C6_ExecuteTaskNeverRaises ==
    fn_pc = "ret" =>
        /\ ~fn_ret.raised
        /\ IsEnvelope(fn_ret.value)
        /\ AllStepsSucceeded(fn_args) =>
              /\ Lookup(fn_ret.value, AgentText.status) = VStr(AgentText.success)
              /\ Lookup(fn_ret.value, AgentText.error) = VNone
        /\ ~AllStepsSucceeded(fn_args) =>
              /\ Lookup(fn_ret.value, AgentText.status) = VStr(AgentText.error)
              /\ Lookup(fn_ret.value, AgentText.data) = VNone
              /\ LET error == Lookup(fn_ret.value, AgentText.error)
                 IN  /\ error.k = "map"
                     /\ error.keys = <<AgentText.type, AgentText.message>>
                     /\ Lookup(error, AgentText.type).k = "str"
                     /\ Len(Lookup(error, AgentText.type).s) > 0
                     /\ Lookup(error, AgentText.message).k = "str"

\* execution raised after authentication and validation passed
C6_Witness ==
    /\ fn_pc = "ret"
    /\ fn_args.self.oauth_required
    /\ fn_args.task.agent_type = fn_args.self.agent_type
    /\ ~fn_args.behaviour.authenticate.raised
    /\ ~fn_args.behaviour.validate_parameters.raised
    /\ fn_args.behaviour.execute.raised
    /\ ~fn_ret.raised
    /\ Lookup(fn_ret.value, AgentText.status) = VStr(AgentText.error)
    /\ Lookup(Lookup(fn_ret.value, AgentText.error), AgentText.type) = VStr(RaisedText.Exception)

----------------------------------------------------------------------------
(* ExecutionEngine: the task graph and its ordering                        *)

\* a Task object (src/src/database/models.py); ids are unique in a plan
NewTask(id, agent_type, dependencies, required_inputs, parameters) ==
    [id |-> id, agent_type |-> agent_type, dependencies |-> dependencies,
     required_inputs |-> required_inputs, parameters |-> parameters,
     status |-> "pending", result |-> VNone]

TaskIdsOf(plan_tasks) == { plan_tasks[i].id : i \in 1..Len(plan_tasks) }

TaskWithId(plan_tasks, id) ==
    plan_tasks[CHOOSE i \in 1..Len(plan_tasks) : plan_tasks[i].id = id]

\* how many times x occurs in the list xs
RECURSIVE CountOf(_, _)
CountOf(xs, x) ==
    IF Len(xs) = 0 THEN 0
    ELSE (IF Head(xs) = x THEN 1 ELSE 0) + CountOf(Tail(xs), x)

\* the list made of n times x
RECURSIVE Repeat(_, _)
Repeat(x, n) == IF n = 0 THEN <<>> ELSE <<x>> \o Repeat(x, n - 1)

\* graph["edges"][dep]: the tasks that list dep, in plan order, once for
\* every time they list it
RECURSIVE DependentsOf(_, _, _)
DependentsOf(plan_tasks, dep, i) ==
    IF i > Len(plan_tasks) THEN <<>>
    ELSE Repeat(plan_tasks[i].id, CountOf(plan_tasks[i].dependencies, dep))
            \o DependentsOf(plan_tasks, dep, i + 1)

\* the ids of the tasks, in plan order
TaskIdList(plan_tasks) == [i \in 1..Len(plan_tasks) |-> plan_tasks[i].id]

\* the elements of ids that are in S, in the order of ids
RECURSIVE Selected(_, _)
Selected(ids, S) ==
    IF Len(ids) = 0 THEN <<>>
    ELSE (IF Head(ids) \in S THEN <<Head(ids)>> ELSE <<>>) \o Selected(Tail(ids), S)

\* graph["nodes"], the dict {task.id: task for task in tasks}: one entry per
\* distinct id, at the place of the first task carrying it and holding the
\* last one
RECURSIVE NodesOf(_, _)
NodesOf(plan_tasks, i) ==
    IF i > Len(plan_tasks) THEN <<>>
    ELSE LET same == { k \in 1..Len(plan_tasks) : plan_tasks[k].id = plan_tasks[i].id }
         IN  (IF \E k \in same : k < i THEN <<>>
              ELSE <<plan_tasks[CHOOSE k \in same : \A l \in same : l <= k]>>)
                 \o NodesOf(plan_tasks, i + 1)

\* ExecutionEngine._build_task_graph
build_task_graph(plan_tasks) ==
    LET deps == UNION { { plan_tasks[i].dependencies[j] :
                            j \in 1..Len(plan_tasks[i].dependencies) } :
                        i \in 1..Len(plan_tasks) }
        no_dependencies == SelectSeq(plan_tasks, LAMBDA t : Len(t.dependencies) = 0)
    IN  [nodes |-> NodesOf(plan_tasks, 1),
         edges |-> [dep \in deps |-> DependentsOf(plan_tasks, dep, 1)],
         independent |-> TaskIdList(no_dependencies)]

\* _topological_sort, lines 121-125: the in-degree of a node is the number of
\* times it stands in the lists of dependents
RECURSIVE TimesListed(_, _, _)
TimesListed(edges, deps, id) ==
    IF deps = {} THEN 0
    ELSE LET dep == CHOOSE d \in deps : TRUE
         IN  CountOf(edges[dep], id) + TimesListed(edges, deps \ {dep}, id)

in_degrees(graph) ==
    [id \in TaskIdsOf(graph.nodes) |-> TimesListed(graph.edges, DOMAIN graph.edges, id)]

\* _topological_sort, lines 137-140: the dependents of the task just taken
\* lose one in-degree each; the ones that reach zero join the queue
RECURSIVE ReleaseDependents(_, _, _, _)
ReleaseDependents(dependents, i, in_degree, queue) ==
    IF i > Len(dependents) THEN [in_degree |-> in_degree, queue |-> queue]
    ELSE LET dependent == dependents[i]
             lowered == [in_degree EXCEPT ![dependent] = @ - 1]
         IN  ReleaseDependents(dependents, i + 1, lowered,
                 IF lowered[dependent] = 0 THEN Append(queue, dependent)
                 ELSE queue)

\* _topological_sort, lines 131-140: the loop over the queue
RECURSIVE KahnLoop(_, _, _, _)
KahnLoop(graph, queue, in_degree, sorted_tasks) ==
    IF Len(queue) = 0 THEN sorted_tasks
    ELSE LET task_id == Head(queue)
             released ==
                 IF task_id \in DOMAIN graph.edges
                 THEN ReleaseDependents(graph.edges[task_id], 1, in_degree, Tail(queue))
                 ELSE [in_degree |-> in_degree, queue |-> Tail(queue)]
         IN  KahnLoop(graph, released.queue, released.in_degree,
                      Append(sorted_tasks, task_id))

\* an ordering that ignores the dependencies: the plan's own order
plan_order(graph) == Returned(TaskIdList(graph.nodes), 0)

\* the order lists the first task of the plan once more at its end
sort_repeating_first(graph) ==
    LET in_degree == in_degrees(graph)
        ready == { id \in TaskIdsOf(graph.nodes) : in_degree[id] = 0 }
        sorted_tasks == KahnLoop(graph, Selected(TaskIdList(graph.nodes), ready),
                                 in_degree, <<>>)
    IN  IF Len(sorted_tasks) # Len(graph.nodes)
        THEN Raised(AgentText.ValueError, EngineText.CircularDependency, 0)
        ELSE Returned(Append(sorted_tasks, sorted_tasks[1]), 0)

\* Kahn's loop without the final comparison of lengths
sort_without_check(graph) ==
    LET in_degree == in_degrees(graph)
        ready == { id \in TaskIdsOf(graph.nodes) : in_degree[id] = 0 }
    IN  Returned(KahnLoop(graph, Selected(TaskIdList(graph.nodes), ready), in_degree,
                          <<>>), 0)

\* ExecutionEngine._topological_sort: raises ValueError when a task never
\* reaches in-degree zero
topological_sort(graph) ==
    LET in_degree == in_degrees(graph)
        ready == { id \in TaskIdsOf(graph.nodes) : in_degree[id] = 0 }
        sorted_tasks == KahnLoop(graph, Selected(TaskIdList(graph.nodes), ready),
                                 in_degree, <<>>)
    IN  IF Len(sorted_tasks) # Len(graph.nodes)
        THEN Raised(AgentText.ValueError, EngineText.CircularDependency, 0)
        ELSE Returned(sorted_tasks, 0)

----------------------------------------------------------------------------
(* The tasks collection (src/src/database/models.py)                       *)

\* mongodb_client.get_database: ConnectionError when MongoDB cannot be
\* reached; PyMongoError is not one of its base classes
get_database(e) ==
    IF e.db_connected THEN Returned(VNone, 0)
    ELSE Raised(AgentText.ConnectionError, RaisedText.MongoDown, 0)

\* the document create_task inserts
TaskDocument(task_id, execution_plan) ==
    [task_id |-> task_id, execution_plan |-> execution_plan, status |-> "pending",
     results |-> VMap(<<>>, <<>>), error |-> VNone]

\* models.update_task_status: the document whose task_id is task_id gets
\* the status and, when they are not None, the results and the error; no
\* document changes when none has this task_id.  Raises what get_database
\* raises (only PyMongoError is caught).
update_task_status(db, e, task_id, status, task_results, error) ==
    LET connection == get_database(e)
        Updated(doc) ==
            [doc EXCEPT !.status = status,
                        !.results = IF task_results = VNone THEN @ ELSE task_results,
                        !.error = IF error = VNone THEN @ ELSE error]
    IN  IF connection.raised
        THEN [raised |-> TRUE, exc |-> connection.exc, db |-> db]
        ELSE [raised |-> FALSE, exc |-> NoException,
              db |-> IF \E i \in 1..Len(db) : db[i].task_id = task_id
                     THEN LET found == CHOOSE i \in 1..Len(db) : db[i].task_id = task_id
                          IN  [db EXCEPT ![found] = Updated(@)]
                     ELSE db]

----------------------------------------------------------------------------
(* ExecutionEngine: one task                                               *)

\* the error result the engine builds itself (lines 393-404, 476-487)
error_result(type, message) ==
    VMap(<<AgentText.status, AgentText.data, AgentText.metadata, AgentText.error>>,
         << VStr(AgentText.error),
            VNone,
            VMap(<<AgentText.execution_time, AgentText.timestamp>>, <<VInt(0), UtcNow>>),
            VMap(<<AgentText.type, AgentText.message>>, <<VStr(type), VStr(message)>>) >>)

\* ExecutionEngine._get_agent: the agent of the task, or what its
\* construction raised; agent_env is what the command meets for this task
get_agent(agent_type, user_id, agent_env) ==
    IF agent_type \in {EngineText.gmail, EngineText.github}
    THEN IF agent_env.construct.raised THEN agent_env.construct
         ELSE Returned([agent_type |-> agent_type, user_id |-> user_id,
                        oauth_required |-> agent_env.oauth_required], 0)
    ELSE Raised(AgentText.ValueError, EngineText.UnknownAgentType \o agent_type, 0)

\* _execute_task_sync, lines 352-360: get the agent and call execute_task
InvokeAgent(task, agent_env) ==
    LET agent == get_agent(task.agent_type, PlanText.default_user, agent_env)
    IN  IF agent.raised THEN agent
        ELSE execute_task(agent.value, task, agent_env.behaviour)

\* _execute_task_sync, lines 389-416: the except clause.  Its own call of
\* update_task_status is not protected.
HandleTaskException(task, exc, ctx, db, e) ==
    LET result == error_result(exc.type, exc.message)
        stored == store_result(ctx, task.id, result)
        update == update_task_status(db, e, task.id, "failed", VNone, VStr(exc.message))
    IN  IF update.raised
        THEN [raised |-> TRUE, exc |-> update.exc, result |-> VNone,
              context |-> stored, db |-> db]
        ELSE [raised |-> FALSE, exc |-> NoException, result |-> result,
              context |-> stored, db |-> update.db]

\* _execute_task_sync, lines 362-387 and the except clause: invoked is what
\* InvokeAgent gave
FinishTask(task, invoked, ctx, db, e) ==
    IF invoked.raised THEN HandleTaskException(task, invoked.exc, ctx, db, e)
    ELSE LET result == invoked.value
             stored == store_result(ctx, task.id, result)
             error  == Lookup(result, AgentText.error)
             update ==
                 IF Lookup(result, AgentText.status) = VStr(AgentText.success)
                 THEN update_task_status(db, e, task.id, "completed",
                                         Lookup(result, AgentText.data), VNone)
                 ELSE update_task_status(db, e, task.id, "failed", VNone,
                          IF Truthy(error) THEN Lookup(error, AgentText.message) ELSE VNone)
         IN  IF update.raised
             THEN HandleTaskException(task, update.exc, stored, db, e)
             ELSE [raised |-> FALSE, exc |-> NoException, result |-> result,
                   context |-> stored, db |-> update.db]

\* ExecutionEngine._execute_task_sync
execute_task_sync(task, ctx, db, e) ==
    FinishTask(task, InvokeAgent(task, e.agents[task.id]), ctx, db, e)

\* a check that finds every dependency satisfied
NoFailedDeps(dependencies, ctx, i) == <<>>

\* _execute_sequential, lines 460-465: the dependencies of the task that
\* have no result or a result whose status is not "success"
RECURSIVE FailedDeps(_, _, _)
FailedDeps(dependencies, ctx, i) ==
    IF i > Len(dependencies) THEN <<>>
    ELSE LET dep_result == get_result(ctx, dependencies[i])
         IN  (IF ~Truthy(dep_result)
                    \/ GetOr(dep_result, AgentText.status, VNone) # VStr(AgentText.success)
              THEN <<dependencies[i]>> ELSE <<>>)
                 \o FailedDeps(dependencies, ctx, i + 1)

\* _execute_sequential, lines 468-471
DependencyErrorMessage(task_id, failed_deps) ==
    EngineText.CannotExecute \o task_id \o EngineText.Dependency
        \o Join(<<",", " ">>, failed_deps) \o EngineText.FailedSuffix

\* the extracted values written into the parameters like dict.update: a name
\* the parameters do not hold yet becomes a new key
updated_parameters(parameters, extracted_data) ==
    LET added == SelectSeq(extracted_data.keys, LAMBDA name : ~HasKey(parameters, name))
    IN  VMap(parameters.keys \o added,
             [i \in 1..(Len(parameters.keys) + Len(added)) |->
                 IF i > Len(parameters.keys)
                 THEN Lookup(extracted_data, added[i - Len(parameters.keys)])
                 ELSE IF HasKey(extracted_data, parameters.keys[i])
                 THEN Lookup(extracted_data, parameters.keys[i])
                 ELSE parameters.items[i]])

\* _execute_sequential, lines 504-513: the parameters after the templates
\* are filled and the direct replacements made
FilledParameters(parameters, extracted_data) ==
    VMap(parameters.keys,
         [i \in 1..Len(parameters.keys) |->
            LET param_value == parameters.items[i]
            IN  IF param_value.k = "str" /\ HasChar(param_value.s, "{")
                THEN VStr(fill_template(param_value.s, extracted_data))
                ELSE IF HasKey(extracted_data, parameters.keys[i])
                THEN Lookup(extracted_data, parameters.keys[i])
                ELSE param_value])

\* _execute_sequential, lines 496-515: task.parameters when the task is
\* handed to _execute_task_sync
PreparedParameters(task, ctx) ==
    IF Truthy(task.required_inputs)
    THEN FilledParameters(task.parameters,
                          extract_required_data(ctx, task.required_inputs))
    ELSE task.parameters

----------------------------------------------------------------------------
(* The commands: a plan handed to ExecutionEngine.execute and what its     *)
(* tasks meet                                                              *)

PlanIds == <<PlanText.task_1, PlanText.task_2, PlanText.task_3>>

MaxRepos == 2

AuthenticateOk == Returned(VBool(TRUE), 0)
ValidateOk == Returned(VBool(TRUE), 0)
ConstructOk == Returned(VNone, 0)

\* an agent whose steps all succeed and whose execute returns raw_data
GoodAgent(raw_data) ==
    [construct |-> ConstructOk, oauth_required |-> TRUE,
     behaviour |-> [authenticate |-> AuthenticateOk,
                    validate_parameters |-> ValidateOk,
                    execute |-> Returned(raw_data, 1)]]

\* an agent whose execute raises
FailingAgent ==
    [construct |-> ConstructOk, oauth_required |-> TRUE,
     behaviour |-> [authenticate |-> AuthenticateOk,
                    validate_parameters |-> ValidateOk,
                    execute |-> Raised(RaisedText.Exception, RaisedText.RateLimited, 1)]]

CountPayload == VMap(<<PlanText.count>>, <<VInt(1)>>)

LimitParameters == VMap(<<PlanText.limit>>, <<VInt(5)>>)

NoInputs == VMap(<<>>, <<>>)

\* n tasks with the given dependencies, nothing passed between them
DependencyTasks(n, dependencies) ==
    [i \in 1..n |->
        NewTask(PlanIds[i], IF i = 1 THEN EngineText.github ELSE EngineText.gmail,
                dependencies[i], NoInputs, LimitParameters)]

SomeAgents(n) ==
    [{ PlanIds[i] : i \in 1..n } -> {GoodAgent(CountPayload), FailingAgent}]

AllPlanIds == { PlanIds[i] : i \in 1..Len(PlanIds) }

\* sequential plans: every task may depend on any set of ids, its own id
\* and ids that no task of the plan has included
SequentialCommands ==
    UNION { { [tasks |-> DependencyTasks(n, [i \in 1..n |-> Selected(PlanIds, deps[i])]),
               execution_type |-> "sequential",
               env |-> [db_connected |-> TRUE, agents |-> agents]] :
                deps \in [1..n -> SUBSET AllPlanIds], agents \in SomeAgents(n) } :
            n \in 1..Len(PlanIds) }

\* parallel plans: every task depends on at most one of the first two ids
ParallelCommands ==
    UNION { { [tasks |-> DependencyTasks(n, deps),
               execution_type |-> "parallel",
               env |-> [db_connected |-> TRUE, agents |-> agents]] :
                deps \in [1..n -> {<<>>, <<PlanText.task_1>>, <<PlanText.task_2>>}],
                agents \in SomeAgents(n) } :
            n \in 1..Len(PlanIds) }

\* what one task may meet: an agent that cannot be constructed, whose
\* authentication, validation or execution fails, and a registry entry
\* with or without OAuth
AgentEnvironments ==
    [construct : {ConstructOk, Raised(RaisedText.RuntimeError, RaisedText.RegistryNotLoaded, 0)},
     oauth_required : BOOLEAN,
     behaviour : [authenticate : {AuthenticateOk, Raised(RaisedText.Exception, RaisedText.OAuthTimedOut, 0)},
                  validate_parameters : {ValidateOk,
                                         Raised(AgentText.ValueError, RaisedText.MissingParams, 0)},
                  execute : {Returned(CountPayload, 1),
                             Raised(RaisedText.Exception, RaisedText.RateLimited, 1)}]]

\* two tasks, the first of any agent type and meeting anything, with the
\* database reachable or not
FailureCommands ==
    { [tasks |-> << NewTask(PlanText.task_1, agent_type, <<>>, NoInputs, LimitParameters),
                    NewTask(PlanText.task_2, EngineText.gmail, dependencies, NoInputs, LimitParameters) >>,
       execution_type |-> execution,
       env |-> [db_connected |-> connected,
                agents |-> [id \in {PlanText.task_1, PlanText.task_2} |->
                               IF id = PlanText.task_1 THEN agent_env
                               ELSE GoodAgent(CountPayload)]]] :
        agent_type \in {EngineText.gmail, EngineText.github, PlanText.slack},
        dependencies \in {<<>>, <<PlanText.task_1>>},
        execution \in {"sequential", "parallel"},
        connected \in BOOLEAN,
        agent_env \in AgentEnvironments }

\* the repository names a listing returns
RepoName(i) ==
    IF i <= 3 THEN <<PlanText.alpha, PlanText.beta, PlanText.gamma>>[i]
    ELSE <<"r", "e", "p", "o", "_">> \o NatText(i)

\* GitHubAgent._list_repositories: the part of the payload the plans use
ListingPayload(n) ==
    VMap(<<PlanText.repo_names, PlanText.count>>,
         <<VList([i \in 1..n |-> VStr(RepoName(i))]), VInt(n)>>)


DataPath ==
    PlanText.task_1 \o <<".">> \o AgentText.data \o <<".">> \o PlanText.repo_names

RepoNamesPath == PlanText.task_1 \o <<".">> \o PlanText.repo_names

\* list the repositories, then send them by email: task_2 takes repo_list
\* from task_1 and has a body that may hold the placeholder
ListingCommands ==
    { [tasks |-> << NewTask(PlanText.task_1, EngineText.github, <<>>, NoInputs, LimitParameters),
                    NewTask(PlanText.task_2, EngineText.gmail, <<PlanText.task_1>>,
                            VMap(<<PlanText.repo_list>>, <<VStr(source_path)>>),
                            VMap(<<PlanText.to, PlanText.body>>, <<VStr(PlanText.peter), VStr(body)>>)) >>,
       execution_type |-> execution,
       env |-> [db_connected |-> TRUE,
                agents |-> [id \in {PlanText.task_1, PlanText.task_2} |->
                               IF id = PlanText.task_1 THEN listing
                               ELSE GoodAgent(VMap(<<PlanText.sent>>, <<VBool(TRUE)>>))]]] :
        source_path \in {RepoNamesPath, DataPath},
        body \in {PlanText.HiTemplate, PlanText.NoPlaceholder},
        execution \in {"sequential", "parallel"},
        listing \in { GoodAgent(ListingPayload(n)) : n \in 0..MaxRepos }
                        \cup {FailingAgent} }

\* Source paths of a second task's required inputs: one that resolves when the
\* listing is not empty, one through a number, one into a task without result.
ExtractionPaths ==
    { DataPath,
      PathText(PlanText.task_1, <<[name |-> AgentText.data, indexed |-> FALSE, index |-> 0],
                                  [name |-> PlanText.repo_names, indexed |-> TRUE, index |-> 0]>>),
      PathText(PlanText.task_1, <<[name |-> AgentText.data, indexed |-> FALSE, index |-> 0],
                                  [name |-> PlanText.count, indexed |-> FALSE, index |-> 0],
                                  [name |-> <<"x">>, indexed |-> FALSE, index |-> 0]>>),
      PathText(PlanText.task_3, <<[name |-> AgentText.data, indexed |-> FALSE, index |-> 0]>>) }

ExtractionCommands ==
    { [tasks |-> << NewTask(PlanText.task_1, EngineText.github, <<>>, NoInputs, LimitParameters),
                    NewTask(PlanText.task_2, EngineText.gmail, <<PlanText.task_1>>,
                            VMap(<<PlanText.first_repo, PlanText.repo_list>>,
                                 <<VStr(first_path), VStr(list_path)>>),
                            VMap(<<PlanText.to, PlanText.body, PlanText.first_repo>>,
                                 <<VStr(PlanText.peter), VStr(PlanText.HiTemplate),
                                   VStr(PlanText.NoPlaceholder)>>)) >>,
       execution_type |-> "sequential",
       env |-> [db_connected |-> TRUE,
                agents |-> [id \in {PlanText.task_1, PlanText.task_2} |->
                               IF id = PlanText.task_1 THEN GoodAgent(ListingPayload(n))
                               ELSE GoodAgent(VMap(<<PlanText.sent>>, <<VBool(TRUE)>>))]]] :
        first_path \in ExtractionPaths,
        list_path \in ExtractionPaths,
        n \in 0..MaxRepos }

Commands ==
    SequentialCommands \cup ParallelCommands \cup FailureCommands \cup ListingCommands
        \cup ExtractionCommands

NoCall == [invoked |-> FALSE, parameters |-> VNone, stored |-> <<>>]

QueuedThread == [state |-> "queued", invoked |-> Returned(VNone, 0), result |-> VNone]

\* a command is parsed into a plan; the context is new; nothing has run
Init ==
    /\ \E command \in Commands :
          /\ tasks = command.tasks
          /\ execution_type = command.execution_type
          /\ env = command.env
    /\ pc = "parsed"
    /\ context = EmptyContext
    /\ ordered_task_ids = <<>>
    /\ cursor = 0
    /\ results = <<>>
    /\ threads = <<>>
    /\ calls = [i \in 1..Len(tasks) |-> NoCall]
    /\ db_tasks = <<>>
    /\ raised = NoException
    /\ HarnessUnused
    /\ AppUnused

----------------------------------------------------------------------------
(* ExecutionEngine.execute                                                 *)

\* the exception object asyncio.gather puts in the place of a result
VException(exc) ==
    [k |-> "exception", s |-> exc.message, n |-> 0, keys |-> <<exc.type>>, items |-> <<>>]

IndexOfTask(id) == CHOOSE i \in 1..Len(tasks) : tasks[i].id = id

CurrentTask == TaskWithId(tasks, ordered_task_ids[cursor])

\* what the history keeps of one call of agent.execute_task
CallOf(task, ctx) == [invoked |-> TRUE, parameters |-> task.parameters, stored |-> ctx.keys]

\* execute, sequential branch: the order is computed, the loop can start
ExecuteSequential ==
    /\ pc = "parsed"
    /\ execution_type # "parallel"
    /\ LET order == topological_sort(build_task_graph(tasks))
       IN  /\ ~order.raised
           /\ ordered_task_ids' = order.value
    /\ cursor' = 1
    /\ pc' = "sequential"
    /\ UNCHANGED <<tasks, execution_type, context, results, threads, calls, db_tasks,
                   raised, env, fnVars, appVars>>

\* execute, sequential branch: _topological_sort raises and execute
\* re-raises
ExecuteSequentialCircular ==
    /\ pc = "parsed"
    /\ execution_type # "parallel"
    /\ LET order == topological_sort(build_task_graph(tasks))
       IN  /\ order.raised
           /\ raised' = order.exc
    /\ pc' = "raised"
    /\ UNCHANGED <<tasks, execution_type, context, ordered_task_ids, cursor, results,
                   threads, calls, db_tasks, env, fnVars, appVars>>

\* one turn of the loop of _execute_sequential for a task with a failed
\* dependency (lines 459-493)
SeqDependencyFailed ==
    /\ pc = "sequential"
    /\ cursor <= Len(ordered_task_ids)
    /\ LET task == CurrentTask
           failed_deps == FailedDeps(task.dependencies, context, 1)
           error_msg == DependencyErrorMessage(task.id, failed_deps)
           result == error_result(EngineText.DependencyError, error_msg)
           update == update_task_status(db_tasks, env, task.id, "failed", VNone,
                                        VStr(error_msg))
       IN  /\ Len(failed_deps) > 0
           /\ context' = store_result(context, task.id, result)
           /\ IF update.raised
              THEN /\ pc' = "raised"
                   /\ raised' = update.exc
                   /\ UNCHANGED <<results, cursor, db_tasks>>
              ELSE /\ results' = Append(results, result)
                   /\ cursor' = cursor + 1
                   /\ db_tasks' = update.db
                   /\ UNCHANGED <<pc, raised>>
    /\ UNCHANGED <<tasks, execution_type, ordered_task_ids, threads, calls, env, fnVars, appVars>>

\* one turn of the loop of _execute_sequential for a task whose
\* dependencies all succeeded (lines 495-543)
SeqExecuteTask ==
    /\ pc = "sequential"
    /\ cursor <= Len(ordered_task_ids)
    /\ LET i == IndexOfTask(ordered_task_ids[cursor])
           task == [tasks[i] EXCEPT !.parameters = PreparedParameters(tasks[i], context)]
           invoked == InvokeAgent(task, env.agents[task.id])
           agent == get_agent(task.agent_type, PlanText.default_user, env.agents[task.id])
           sync == execute_task_sync(task, context, db_tasks, env)
       IN  /\ Len(FailedDeps(task.dependencies, context, 1)) = 0
           /\ calls' = IF agent.raised THEN calls
                       ELSE [calls EXCEPT ![i] = CallOf(task, context)]
           /\ context' = sync.context
           /\ db_tasks' = sync.db
           /\ IF sync.raised
              THEN /\ pc' = "raised"
                   /\ raised' = sync.exc
                   /\ tasks' = [tasks EXCEPT ![i] = task]
                   /\ UNCHANGED <<results, cursor>>
              ELSE /\ results' = Append(results, sync.result)
                   /\ tasks' = [tasks EXCEPT ![i] =
                                   [task EXCEPT !.result = sync.result,
                                                !.status =
                                       IF Lookup(sync.result, AgentText.status) = VStr(AgentText.success)
                                       THEN "completed" ELSE "failed"]]
                   /\ cursor' = cursor + 1
                   /\ UNCHANGED <<pc, raised>>
    /\ UNCHANGED <<execution_type, ordered_task_ids, threads, env, fnVars, appVars>>

\* _execute_sequential returns, execute returns the summary
SeqReturn ==
    /\ pc = "sequential"
    /\ cursor > Len(ordered_task_ids)
    /\ pc' = "returned"
    /\ UNCHANGED <<tasks, execution_type, context, ordered_task_ids, cursor, results,
                   threads, calls, db_tasks, raised, env, fnVars, appVars>>

\* execute, parallel branch: one worker per task of the plan
ExecuteParallel ==
    /\ pc = "parsed"
    /\ execution_type = "parallel"
    /\ threads' = [i \in 1..Len(tasks) |-> QueuedThread]
    /\ pc' = "parallel"
    /\ UNCHANGED <<tasks, execution_type, context, ordered_task_ids, cursor, results,
                   calls, db_tasks, raised, env, fnVars, appVars>>

\* a worker starts _execute_task_sync: it gets the agent and calls it with
\* a copy of the results stored so far
ParStart(i) ==
    /\ pc = "parallel"
    /\ threads[i].state = "queued"
    /\ LET task == tasks[i]
           agent == get_agent(task.agent_type, PlanText.default_user, env.agents[task.id])
       IN  /\ threads' = [threads EXCEPT ![i] =
                             [@ EXCEPT !.state = "running",
                                       !.invoked = InvokeAgent(task, env.agents[task.id])]]
           /\ calls' = IF agent.raised THEN calls
                       ELSE [calls EXCEPT ![i] = CallOf(task, context)]
    /\ UNCHANGED <<tasks, execution_type, pc, context, ordered_task_ids, cursor, results,
                   db_tasks, raised, env, fnVars, appVars>>

\* a worker finishes _execute_task_sync: the result is stored; gather
\* keeps an exception that leaves the worker as its result
ParFinish(i) ==
    /\ pc = "parallel"
    /\ threads[i].state = "running"
    /\ LET finished == FinishTask(tasks[i], threads[i].invoked, context, db_tasks, env)
       IN  /\ context' = finished.context
           /\ db_tasks' = finished.db
           /\ threads' = [threads EXCEPT ![i] =
                             [@ EXCEPT !.state = "done",
                                       !.result = IF finished.raised
                                                  THEN VException(finished.exc)
                                                  ELSE finished.result]]
    /\ UNCHANGED <<tasks, execution_type, pc, ordered_task_ids, cursor, results, calls,
                   raised, env, fnVars, appVars>>

\* gather returns once every worker is done; execute returns the summary
ParReturn ==
    /\ pc = "parallel"
    /\ \A i \in 1..Len(tasks) : threads[i].state = "done"
    /\ results' = [i \in 1..Len(tasks) |-> threads[i].result]
    /\ pc' = "returned"
    /\ UNCHANGED <<tasks, execution_type, context, ordered_task_ids, cursor, threads,
                   calls, db_tasks, raised, env, fnVars, appVars>>

----------------------------------------------------------------------------
(* main: after execute                                                     *)

\* str(uuid4()): an id no document has yet and no plan uses
NewUuid(db) == <<"u", "u", "i", "d", "-">> \o NatText(Len(db) + 1)

\* models.create_task
create_task(db, execution_plan) ==
    Append(db, TaskDocument(NewUuid(db), execution_plan))

\* main, lines 225-251: the command's Task record is created
MainStoreTask ==
    /\ pc = "returned"
    /\ ~get_database(env).raised
    /\ db_tasks' = create_task(db_tasks, [i \in 1..Len(tasks) |-> tasks[i].id])
    /\ pc' = "done"
    /\ UNCHANGED <<tasks, execution_type, context, ordered_task_ids, cursor, results,
                   threads, calls, raised, env, fnVars, appVars>>

\* main, lines 225-254: the insertion fails (create_task returns None on
\* PyMongoError, main catches anything else)
MainStoreTaskFails ==
    /\ pc = "returned"
    /\ pc' = "done"
    /\ UNCHANGED <<tasks, execution_type, context, ordered_task_ids, cursor, results,
                   threads, calls, db_tasks, raised, env, fnVars, appVars>>

\* main, lines 199-205: execute raised, the error is displayed and the
\* loop goes on to the next command
MainExecutionFailed ==
    /\ pc = "raised"
    /\ pc' = "failed"
    /\ UNCHANGED <<tasks, execution_type, context, ordered_task_ids, cursor, results,
                   threads, calls, db_tasks, raised, env, fnVars, appVars>>

Next ==
    \/ ExecuteSequential
    \/ ExecuteSequentialCircular
    \/ SeqDependencyFailed
    \/ SeqExecuteTask
    \/ SeqReturn
    \/ ExecuteParallel
    \/ \E i \in 1..Len(tasks) : ParStart(i)
    \/ \E i \in 1..Len(tasks) : ParFinish(i)
    \/ ParReturn
    \/ MainStoreTask
    \/ MainStoreTaskFails
    \/ MainExecutionFailed

Spec == Init /\ [][Next]_vars

----------------------------------------------------------------------------
(* Properties of the engine                                                *)

Sequential == execution_type # "parallel" /\ pc # "unused"

Parallel == execution_type = "parallel"

ElementsOf(xs) == { xs[i] : i \in 1..Len(xs) }

StatusOf(result) == GetOr(result, AgentText.status, VNone)

ErrorTypeOf(result) == GetOr(GetOr(result, AgentText.error, VNone), AgentText.type, VNone)

\* a dependency of the task has no result or a result that is not a success
HasFailedDependency(task, ctx) ==
    \E dep \in ElementsOf(task.dependencies) :
        ~HasKey(ctx, dep) \/ StatusOf(Lookup(ctx, dep)) # VStr(AgentText.success)

\* C1: in sequential mode a task is attempted, and its agent called, only
\* when every task it depends on has its result stored in the context.
C1_DependenciesStoredFirst ==
    Sequential =>
        /\ (pc = "sequential" /\ cursor <= Len(ordered_task_ids)) =>
              \A dep \in ElementsOf(CurrentTask.dependencies) : HasKey(context, dep)
        /\ \A i \in 1..Len(tasks) :
              calls[i].invoked =>
                  ElementsOf(tasks[i].dependencies) \subseteq ElementsOf(calls[i].stored)

\* the agent of a task with two dependencies has been called
C1_Witness ==
    /\ Sequential
    /\ \E i \in 1..Len(tasks) :
          /\ calls[i].invoked
          /\ Len(tasks[i].dependencies) = 2
          /\ ElementsOf(tasks[i].dependencies) \subseteq ElementsOf(calls[i].stored)

\* C2: in sequential mode, when a dependency of the task at hand has no
\* result or a result that is not a success, the turn of the loop calls no
\* agent, stores an error result for the task and moves on to the next task.
C2_FailedDependencySkipsTask ==
    [][ (Sequential /\ pc = "sequential" /\ cursor <= Len(ordered_task_ids)
            /\ HasFailedDependency(CurrentTask, context))
        => /\ calls' = calls
           /\ StatusOf(get_result(context', CurrentTask.id)) = VStr(AgentText.error)
           /\ ErrorTypeOf(get_result(context', CurrentTask.id)) = VStr(EngineText.DependencyError)
           /\ pc' = "sequential"
           /\ cursor' = cursor + 1
           /\ Len(results') = Len(results) + 1 ]_vars

\* two tasks were marked failed for their dependencies, one after the
\* other, their agents never called, and the run came to its end
C2_Witness ==
    /\ Sequential
    /\ pc = "returned"
    /\ Len(results) = 3
    /\ \E i, j \in 1..Len(tasks) :
          /\ i # j
          /\ ~calls[i].invoked /\ ~calls[j].invoked
          /\ ErrorTypeOf(get_result(context, tasks[i].id)) = VStr(EngineText.DependencyError)
          /\ ErrorTypeOf(get_result(context, tasks[j].id)) = VStr(EngineText.DependencyError)

\* the tasks of the plan that id depends on, directly
PlanDependencies(id) ==
    ElementsOf(TaskWithId(tasks, id).dependencies) \cap TaskIdsOf(tasks)

\* the tasks reached from the set S in one to k steps of dependency
RECURSIVE Ancestors(_, _)
Ancestors(S, k) ==
    IF k = 0 THEN {}
    ELSE LET next == UNION { PlanDependencies(id) : id \in S }
         IN  next \cup Ancestors(next, k - 1)

HasCycle == \E id \in TaskIdsOf(tasks) : id \in Ancestors({id}, Len(tasks))

CircularDependencyError == [type |-> AgentText.ValueError, message |-> EngineText.CircularDependency]

\* execute failed with the circular-dependency error before any task ran
FailsBeforeAnyTask ==
    /\ pc \in {"parsed", "raised", "failed"}
    /\ pc # "parsed" => raised = CircularDependencyError
    /\ context = EmptyContext
    /\ \A i \in 1..Len(tasks) : ~calls[i].invoked

AgentSucceeds(task) ==
    LET agent_env == env.agents[task.id]
    IN  /\ task.agent_type \in {EngineText.gmail, EngineText.github}
        /\ ~agent_env.construct.raised
        /\ agent_env.oauth_required => ~agent_env.behaviour.authenticate.raised
        /\ ~agent_env.behaviour.validate_parameters.raised
        /\ ~agent_env.behaviour.execute.raised

\* C4: in parallel mode every task is dispatched and, when execute
\* returns, the context holds one result for each task id, whichever tasks
\* failed and in whatever order they finished; the tasks whose agent
\* succeeds, and whose status update reaches the database, have a success
\* result whatever the others did.
C4_ParallelOneResultPerTask ==
    (Parallel /\ pc \in {"returned", "done"}) =>
        /\ \A i \in 1..Len(tasks) : threads[i].state = "done"
        /\ Len(results) = Len(tasks)
        /\ ElementsOf(context.keys) = TaskIdsOf(tasks)
        /\ Len(context.keys) = Len(tasks)
        /\ \A i \in 1..Len(tasks) :
              LET result == get_result(context, tasks[i].id)
              IN  /\ StatusOf(result) \in {VStr(AgentText.success), VStr(AgentText.error)}
                  /\ (AgentSucceeds(tasks[i]) /\ env.db_connected)
                        => StatusOf(result) = VStr(AgentText.success)
                  /\ ~AgentSucceeds(tasks[i]) => StatusOf(result) = VStr(AgentText.error)

\* a parallel run of three tasks returned after the last task finished
\* first and failed, and the first task, started last, succeeded
C4_Witness ==
    /\ Parallel
    /\ pc = "returned"
    /\ Len(tasks) = 3
    /\ calls[1].stored = <<PlanText.task_3, PlanText.task_2>>
    /\ StatusOf(get_result(context, PlanText.task_3)) = VStr(AgentText.error)
    /\ StatusOf(get_result(context, PlanText.task_1)) = VStr(AgentText.success)

NumberedList(names) ==
    Join(<<"\n">>, [i \in 1..Len(names) |-> IntText(i) \o <<".", " ">> \o names[i].s])

\* the plan lists the repositories in task_1 and task_2 takes repo_list
\* from "task_1.repo_names"
ListingPlan ==
    /\ Sequential
    /\ Len(tasks) = 2
    /\ tasks[1].id = PlanText.task_1
    /\ tasks[2].dependencies = <<PlanText.task_1>>
    /\ tasks[2].required_inputs = VMap(<<PlanText.repo_list>>, <<VStr(RepoNamesPath)>>)

\* C7: task_2 depends on task_1 and takes repo_list from
\* "task_1.repo_names"; once task_1 succeeded with a list of names, the
\* body handed to the agent of task_2 is the body of the plan with the
\* placeholder {repo_list} replaced by the names as a numbered list.
C7_PlaceholderBecomesNumberedList ==
    (ListingPlan /\ calls[2].invoked) =>
        LET payload == Lookup(get_result(context, PlanText.task_1), AgentText.data)
            names == Lookup(payload, PlanText.repo_names).items
            body == Lookup(calls[2].parameters, PlanText.body)
        IN  \/ body = VStr(PlanText.NoPlaceholder)
            \/ body = VStr(<<"H", "i", ",", "\n">> \o NumberedList(names))

\* C10: when a command has been processed to its end, its persisted Task
\* record has the status "completed" or "failed", never "pending".
C10_RecordMirrorsOutcome ==
    pc = "done" =>
        \A i \in 1..Len(db_tasks) : db_tasks[i].status \in {"completed", "failed"}

----------------------------------------------------------------------------
(* main: the application loop                                              *)
(*                                                                         *)
(* The loop is in one of its calls: get_input ("input"), parse_intent      *)
(* ("parse") or the execution block of lines 176-198 ("execute"); it has   *)
(* left the loop when main_pc is "exited".  parse_intent and execute_plan  *)
(* are taken by what they give back to main: a plan or an exception, a     *)
(* summary or an exception.  A keyboard interrupt reaches main as the      *)
(* KeyboardInterrupt raised out of the call the loop is in.                *)

MaxLines == 3


\* the texts of main, of the parser and of the OAuth manager: commands, keys,
\* names, tokens and messages
AppText ==
    [ exit |-> <<"e", "x", "i", "t">>,
      quit |-> <<"q", "u", "i", "t">>,
      bye |-> <<"b", "y", "e">>,
      q |-> <<"q">>,
      help |-> <<"h", "e", "l", "p">>,
      status |-> <<"s", "t", "a", "t", "u", "s">>,
      clear |-> <<"c", "l", "e", "a", "r">>,
      history |-> <<"h", "i", "s", "t", "o", "r", "y">>,
      Executed |-> <<"E", "x", "e", "c", "u", "t", "e", "d", " ">>,
      tasks_suffix |-> <<" ", "t", "a", "s", "k", "s">>,
      EOFError |-> <<"E", "O", "F", "E", "r", "r", "o", "r">>,
      KeyboardInterrupt |-> <<"K", "e", "y", "b", "o", "a", "r", "d", "I",
        "n", "t", "e", "r", "r", "u", "p", "t">>,
      APIError |-> <<"A", "P", "I", "C", "o", "n", "n", "e", "c", "t", "i",
        "o", "n", "E", "r", "r", "o", "r">>,
      ConnectionRefused |-> <<"C", "o", "n", "n", "e", "c", "t", "i", "o",
        "n", " ", "e", "r", "r", "o", "r", ".">>,
      InvalidJson |-> <<"F", "a", "i", "l", "e", "d", " ", "t", "o", " ",
        "p", "a", "r", "s", "e", " ", "L", "L", "M", " ", "r", "e", "s", "p",
        "o", "n", "s", "e", " ", "a", "s", " ", "J", "S", "O", "N", ":", " ",
        "E", "x", "p", "e", "c", "t", "i", "n", "g", " ", "v", "a", "l", "u",
        "e", ":", " ", "l", "i", "n", "e", " ", "1", " ", "c", "o", "l", "u",
        "m", "n", " ", "1", " ", "(", "c", "h", "a", "r", " ", "0", ")">>,
      tasks |-> <<"t", "a", "s", "k", "s">>,
      execution_type |-> <<"e", "x", "e", "c", "u", "t", "i", "o", "n", "_",
        "t", "y", "p", "e">>,
      id |-> <<"i", "d">>,
      agent_type |-> <<"a", "g", "e", "n", "t", "_", "t", "y", "p", "e">>,
      mode |-> <<"m", "o", "d", "e">>,
      dependencies |-> <<"d", "e", "p", "e", "n", "d", "e", "n", "c", "i",
        "e", "s">>,
      parallel |-> <<"p", "a", "r", "a", "l", "l", "e", "l">>,
      sequential |-> <<"s", "e", "q", "u", "e", "n", "t", "i", "a", "l">>,
      serial |-> <<"s", "e", "r", "i", "a", "l">>,
      read |-> <<"r", "e", "a", "d">>,
      send |-> <<"s", "e", "n", "d">>,
      search |-> <<"s", "e", "a", "r", "c", "h">>,
      list_repos |-> <<"l", "i", "s", "t", "_", "r", "e", "p", "o", "s">>,
      get_repo |-> <<"g", "e", "t", "_", "r", "e", "p", "o">>,
      error |-> <<"e", "r", "r", "o", "r">>,
      post |-> <<"p", "o", "s", "t">>,
      MissingTasks |-> <<"R", "e", "s", "p", "o", "n", "s", "e", " ", "m",
        "i", "s", "s", "i", "n", "g", " ", "'", "t", "a", "s", "k", "s", "'",
        " ", "f", "i", "e", "l", "d">>,
      MissingExecutionType |-> <<"R", "e", "s", "p", "o", "n", "s", "e", " ",
        "m", "i", "s", "s", "i", "n", "g", " ", "'", "e", "x", "e", "c", "u",
        "t", "i", "o", "n", "_", "t", "y", "p", "e", "'", " ", "f", "i", "e",
        "l", "d">>,
      InvalidExecutionType |-> <<"I", "n", "v", "a", "l", "i", "d", " ", "e",
        "x", "e", "c", "u", "t", "i", "o", "n", "_", "t", "y", "p", "e", ":",
        " ">>,
      MustBe |-> <<".", " ", "M", "u", "s", "t", " ", "b", "e", " ", "'",
        "p", "a", "r", "a", "l", "l", "e", "l", "'", " ", "o", "r", " ", "'",
        "s", "e", "q", "u", "e", "n", "t", "i", "a", "l", "'">>,
      TasksNotList |-> <<"'", "t", "a", "s", "k", "s", "'", " ", "m", "u",
        "s", "t", " ", "b", "e", " ", "a", " ", "l", "i", "s", "t">>,
      TasksEmpty |-> <<"'", "t", "a", "s", "k", "s", "'", " ", "l", "i", "s",
        "t", " ", "c", "a", "n", "n", "o", "t", " ", "b", "e", " ", "e", "m",
        "p", "t", "y">>,
      Task |-> <<"T", "a", "s", "k", " ">>,
      UnknownAgentType |-> <<":", " ", "U", "n", "k", "n", "o", "w", "n",
        " ", "a", "g", "e", "n", "t", "_", "t", "y", "p", "e", " ", "'">>,
      InvalidMode |-> <<":", " ", "I", "n", "v", "a", "l", "i", "d", " ",
        "m", "o", "d", "e", " ", "'">>,
      ForAgent |-> <<"'", " ", "f", "o", "r", " ", "a", "g", "e", "n", "t",
        " ", "'">>,
      AvailableModes |-> <<"'", ".", " ", "A", "v", "a", "i", "l", "a", "b",
        "l", "e", " ", "m", "o", "d", "e", "s", ":", " ">>,
      Dependency |-> <<":", " ", "D", "e", "p", "e", "n", "d", "e", "n", "c",
        "y", " ", "'">>,
      NotInTaskList |-> <<"'", " ", "n", "o", "t", " ", "f", "o", "u", "n",
        "d", " ", "i", "n", " ", "t", "a", "s", "k", " ", "l", "i", "s",
        "t">>,
      Circular |-> <<"C", "i", "r", "c", "u", "l", "a", "r", " ", "d", "e",
        "p", "e", "n", "d", "e", "n", "c", "y", " ", "d", "e", "t", "e", "c",
        "t", "e", "d", " ", "i", "n", "v", "o", "l", "v", "i", "n", "g", " ",
        "t", "a", "s", "k", " ">>,
      token_salt |-> <<"s", "a", "l", "t">>,
      EmptyToken |-> <<"T", "o", "k", "e", "n", " ", "c", "a", "n", "n", "o", "t", " ", "b", "e", " ", "e", "m", "p", "t", "y">>,
      fernet |-> <<"g", "A", "A", "A", "A", "A">>,
      ya29_a |-> <<"y", "a", "2", "9", ".", "a">>,
      ya29_b |-> <<"y", "a", "2", "9", ".", "b">>,
      refresh_1 |-> <<"1", "/", "/", "r">>,
      gho_a |-> <<"g", "h", "o", "_", "a">>,
      gho_b |-> <<"g", "h", "o", "_", "b">>,
      not_a_token |-> <<"p", "l", "a", "i", "n">>,
      auth_code |-> <<"4", "/", "c">>,
      access_denied |-> <<"a", "c", "c", "e", "s", "s", "_", "d", "e", "n",
        "i", "e", "d">>,
      OAuthError |-> <<"O", "A", "u", "t", "h", " ", "e", "r", "r", "o", "r",
        ":", " ">>,
      TokenRefreshFailed |-> <<"T", "o", "k", "e", "n", " ", "r", "e", "f",
        "r", "e", "s", "h", " ", "f", "a", "i", "l", "e", "d", ":", " ", "i",
        "n", "v", "a", "l", "i", "d", "_", "g", "r", "a", "n", "t">>,
      TokenExchangeError |-> <<"T", "o", "k", "e", "n", " ", "e", "x", "c",
        "h", "a", "n", "g", "e", " ", "e", "r", "r", "o", "r", ":", " ", "b",
        "a", "d", "_", "v", "e", "r", "i", "f", "i", "c", "a", "t", "i", "o",
        "n", "_", "c", "o", "d", "e">>,
      InvalidGrantError |-> <<"I", "n", "v", "a", "l", "i", "d", "G", "r",
        "a", "n", "t", "E", "r", "r", "o", "r">>,
      invalid_grant |-> <<"(", "i", "n", "v", "a", "l", "i", "d", "_", "g",
        "r", "a", "n", "t", ")", " ", "B", "a", "d", " ", "R", "e", "q", "u",
        "e", "s", "t">>,
      DecryptFailed |-> <<"F", "a", "i", "l", "e", "d", " ", "t", "o", " ",
        "d", "e", "c", "r", "y", "p", "t", " ", "t", "o", "k", "e", "n", ":",
        " ">>,
      EmptyEncrypted |-> <<"E", "n", "c", "r", "y", "p", "t", "e", "d", " ",
        "t", "o", "k", "e", "n", " ", "c", "a", "n", "n", "o", "t", " ", "b",
        "e", " ", "e", "m", "p", "t", "y">>,
      OSError |-> <<"O", "S", "E", "r", "r", "o", "r">>,
      AddressInUse |-> <<"[", "E", "r", "r", "n", "o", " ", "9", "8", "]",
        " ", "A", "d", "d", "r", "e", "s", "s", " ", "a", "l", "r", "e", "a",
        "d", "y", " ", "i", "n", " ", "u", "s", "e">> ]

\* the lines the operator types
InputLines ==
    { <<>>,
      <<" ">>,
      <<"e", "x", "i", "t">>,
      <<" ", "E", "x", "i", "t", " ">>,
      <<"Q", "U", "I", "T">>,
      <<"b", "y", "e">>,
      <<"q">>,
      <<"h", "e", "l", "p">>,
      <<"S", "t", "a", "t", "u", "s">>,
      <<"c", "l", "e", "a", "r", " ">>,
      <<"h", "i", "s", "t", "o", "r", "y">>,
      <<"h", "i">>,
      <<"e", "x", "i", "t", " ", "n", "o", "w">> }

\* the same dispatch on the line as typed
command_kind_as_typed(line) ==
    IF Len(line) = 0 THEN "blank"
    ELSE IF line \in {AppText.exit, AppText.quit, AppText.bye, AppText.q}
         THEN "exit"
    ELSE IF line \in {AppText.help, AppText.status, AppText.clear, AppText.history}
         THEN "utility"
    ELSE "natural"

\* main, lines 116-143: what the loop does with a line
command_kind(line) ==
    LET command == Lower(Strip(line))
    IN  IF Len(Strip(line)) = 0 THEN "blank"
        ELSE IF command \in {AppText.exit, AppText.quit, AppText.bye, AppText.q}
             THEN "exit"
        ELSE IF command \in {AppText.help, AppText.status, AppText.clear,
                             AppText.history}
             THEN "utility"
        ELSE "natural"

\* the history is left as it is
append_nothing(history, line, plan_tasks) == history

\* main, lines 208-213, and update_session's $push: the interaction is
\* appended (the timestamp is left out)
append_interaction(history, line, plan_tasks) ==
    Append(history,
           [user_input |-> line,
            system_response |->
                AppText.Executed \o NatText(Len(plan_tasks)) \o AppText.tasks_suffix])

\* whatever parse_intent gave, the loop goes on to the execution
always_execute(outcome) == "execute"

\* main, lines 148-166: the loop goes on to the execution when parse_intent
\* returned a plan, back to the prompt when it raised
after_parse(outcome) == IF outcome.raised THEN "input" ELSE "execute"

\* what the calls made by the loop give back: get_input's exceptions
\* (EOFError at the end of the input, KeyboardInterrupt), parse_intent's
\* plan (its number of tasks) or exception, execute_plan's summary or
\* exception, and whether a write of update_session or create_task is made
\* or not (False or None returned, an exception that main logs, or a
\* KeyboardInterrupt, after which the loop makes no further write)
MainOutcomes ==
    LET interrupt == Raised(AppText.KeyboardInterrupt, <<>>, 0)
    IN  [ get_input |-> {Raised(AppText.EOFError, <<>>, 0), interrupt},
          parse_intent |->
              { Returned(VInt(n), 0) : n \in {1, 2} }
                  \cup { Raised(AgentText.ValueError, AppText.InvalidJson, 0),
                         Raised(AppText.APIError, AppText.ConnectionRefused, 0),
                         interrupt },
          execute_plan |->
              { Returned(VNone, 0),
                Raised(AgentText.ValueError, EngineText.CircularDependency, 0),
                Raised(AgentText.ConnectionError, RaisedText.MongoDown, 0),
                interrupt },
          write |-> {"written", "failed"} ]

\* the word main_log keeps for an exception: caught by line 256 or not
EventOf(call, outcome) ==
    IF ~outcome.raised THEN call \o "_returned"
    ELSE IF outcome.exc.type = AppText.KeyboardInterrupt THEN call \o "_interrupted"
    ELSE call \o "_failed"

\* main, lines 93-107: the user and the session exist, the history is empty
InitMain ==
    /\ EngineUnused
    /\ HarnessUnused
    /\ AuthUnused
    /\ DataUnused
    /\ main_pc = "input"
    /\ user_input = <<>>
    /\ conversation_history = <<>>
    /\ db_sessions = <<>>
    /\ main_log = [lines |-> 0, parser_calls |-> 0, engine_calls |-> 0, contexts |-> 0,
                   processed |-> <<>>, session_writes |-> <<>>, last |-> "start",
                   exit_code |-> -1]

\* main, lines 111-143 and 256-266: get_input returns a line, which is
\* blank, a utility command, an exit command or a request, or it raises
\* (EOFError at the end of the input, KeyboardInterrupt)
GetInput ==
    /\ main_pc = "input"
    /\ main_log.lines < MaxLines
    /\ \/ \E line \in InputLines :
             /\ user_input' = line
             /\ main_pc' = CASE command_kind(line) = "exit" -> "exited"
                             [] command_kind(line) = "natural" -> "parse"
                             [] OTHER -> "input"
             /\ main_log' = [main_log EXCEPT
                               !.lines = @ + 1,
                               !.last = command_kind(line),
                               !.exit_code = IF command_kind(line) = "exit" THEN 0 ELSE @]
       \/ \E outcome \in MainOutcomes.get_input :
             /\ main_log' = [main_log EXCEPT !.lines = @ + 1,
                                             !.last = EventOf("input", outcome)]
             /\ UNCHANGED <<user_input, main_pc>>
    /\ UNCHANGED <<conversation_history, db_sessions, engineVars, fnVars, authVars, dataVars>>

\* main, lines 148-173 and 256-258: parse_intent is called; when it returns
\* the plan, the ExecutionContext is created
ParseIntent ==
    /\ main_pc = "parse"
    /\ \E outcome \in MainOutcomes.parse_intent :
          /\ main_pc' = after_parse(outcome)
          /\ tasks' = IF outcome.raised THEN tasks
                      ELSE DependencyTasks(outcome.value.n, [i \in 1..outcome.value.n |-> <<>>])
          /\ main_log' = [main_log EXCEPT
                            !.parser_calls = @ + 1,
                            !.contexts = IF main_pc' = "execute" THEN @ + 1 ELSE @,
                            !.last = EventOf("parse", outcome)]
    /\ UNCHANGED <<user_input, conversation_history, db_sessions, execution_type, pc,
                   context, ordered_task_ids, cursor, results, threads, calls, db_tasks,
                   raised, env, fnVars, authVars, dataVars>>

\* main, lines 176-258: execute_plan is called and the results are
\* displayed; then the interaction is appended to the history, the session
\* is updated and the command's Task record is created
ExecutePlan ==
    /\ main_pc = "execute"
    /\ main_pc' = "input"
    /\ \E outcome \in MainOutcomes.execute_plan, session \in MainOutcomes.write,
          record \in MainOutcomes.write :
          /\ outcome.raised => session = "failed" /\ record = "failed"
          /\ main_log' = [main_log EXCEPT
                            !.engine_calls = @ + 1,
                            !.processed = IF outcome.raised THEN @ ELSE Append(@, user_input),
                            !.session_writes = IF outcome.raised THEN @ ELSE Append(@, session),
                            !.last = EventOf("execute", outcome)]
          /\ conversation_history' =
                IF outcome.raised THEN conversation_history
                ELSE append_interaction(conversation_history, user_input, tasks)
          /\ db_sessions' =
                IF ~outcome.raised /\ session = "written"
                THEN append_interaction(db_sessions, user_input, tasks)
                ELSE db_sessions
          /\ db_tasks' =
                IF ~outcome.raised /\ record = "written"
                THEN create_task(db_tasks, TaskIdList(tasks))
                ELSE db_tasks
    /\ UNCHANGED <<user_input, tasks, execution_type, pc, context, ordered_task_ids,
                   cursor, results, threads, calls, raised, env, fnVars, authVars, dataVars>>

NextMain ==
    \/ GetInput
    \/ ParseIntent
    \/ ExecutePlan

SpecMain == InitMain /\ [][NextMain]_vars

----------------------------------------------------------------------------
(* Properties of the application loop                                      *)

InputsOf(history) == [i \in 1..Len(history) |-> history[i].user_input]

ExitWords == {AppText.exit, AppText.quit, AppText.bye, AppText.q}

UtilityWords == {AppText.help, AppText.status, AppText.clear, AppText.history}

\* the line is a natural-language request: not blank, not a command
IsRequest(line) ==
    /\ Strip(line) # <<>>
    /\ Lower(Strip(line)) \notin ExitWords \cup UtilityWords

\* the step is get_input returning a line
LineRead ==
    /\ main_pc = "input"
    /\ main_log'.lines = main_log.lines + 1
    /\ main_log'.last \notin {"input_failed", "input_interrupted"}

\* the lines whose session update was written, in order
RECURSIVE WrittenOf(_, _)
WrittenOf(lines, writes) ==
    IF Len(lines) = 0 THEN <<>>
    ELSE (IF Head(writes) = "written" THEN <<Head(lines)>> ELSE <<>>)
            \o WrittenOf(Tail(lines), Tail(writes))

C12_LoopEndsOnlyOnExit ==
    /\ [](main_pc # "exited" => main_log.exit_code = -1)
    /\ [][(main_pc' = "exited" /\ main_pc # "exited") =>
            /\ LineRead
            /\ Lower(Strip(user_input')) \in ExitWords
            /\ main_log'.exit_code = 0]_vars
    /\ [][(LineRead /\ Lower(Strip(user_input')) \in ExitWords) =>
            main_pc' = "exited"]_vars
    /\ [][(main_log' # main_log /\
           main_log'.last \in {"input_failed", "input_interrupted", "parse_failed",
                               "parse_interrupted", "execute_failed",
                               "execute_interrupted"}) =>
            main_pc' = "input"]_vars

\* the loop was left by " Exit " after a request whose parse failed and a
\* request whose execution failed
C12_Witness ==
    /\ main_pc = "exited"
    /\ user_input = <<" ", "E", "x", "i", "t", " ">>
    /\ main_log.exit_code = 0
    /\ main_log.parser_calls = 2
    /\ main_log.engine_calls = 1
    /\ main_log.processed = <<>>

\* C13: when parse_intent raises, the loop is back at the prompt with no
\* ExecutionContext created, no call of the engine, and the history, the
\* persisted session and the Task records as they were; the engine is only
\* ever called on a plan parse_intent returned.
C13_ParseFailureLeavesNoTrace ==
    /\ [](/\ main_log.engine_calls <= main_log.contexts
          /\ main_log.contexts <= main_log.parser_calls
          /\ main_pc = "execute" => main_log.last = "parse_returned")
    /\ [][(main_pc = "parse" /\ main_log'.last \in {"parse_failed", "parse_interrupted"}) =>
            /\ main_pc' = "input"
            /\ main_log'.contexts = main_log.contexts
            /\ main_log'.engine_calls = main_log.engine_calls
            /\ UNCHANGED <<conversation_history, db_sessions, db_tasks, tasks>>]_vars

\* after a request that was processed and recorded, the parse of the next
\* one failed
C13_Witness ==
    /\ main_log.last = "parse_failed"
    /\ main_log.parser_calls = 2
    /\ main_log.contexts = 1
    /\ Len(conversation_history) = 1
    /\ Len(db_tasks) = 1

----------------------------------------------------------------------------
(* IntentParser.parse_intent: from the model's answer to the plan          *)
(*                                                                         *)
(* The answer of the model is either text that json.loads rejects or a     *)
(* JSON object, given as a Python value.  The registry holds the two       *)
(* agents and their modes.                                                 *)


\* the agent registry: the two agents and their modes
Registry ==
    VMap(<<EngineText.gmail, EngineText.github>>,
         << VList(<<VStr(AppText.read), VStr(AppText.send), VStr(AppText.search)>>),
            VList(<<VStr(AppText.list_repos), VStr(AppText.get_repo)>>) >>)

\* no dependency is followed
no_circular_dependencies(task, plan_tasks) == FALSE

\* IntentParser._check_circular_dependencies: TRUE when the ValueError is
\* raised.  visit gives what it returns and the visited and path sets it
\* leaves.
check_circular_dependencies(task, plan_tasks) ==
    LET RECURSIVE visit(_, _, _)
        RECURSIVE visit_dependencies(_, _, _, _)
        visit(task_id, visited, path) ==
            IF task_id \in path THEN [found |-> TRUE, visited |-> visited, path |-> path]
            ELSE IF task_id \in visited
                 THEN [found |-> FALSE, visited |-> visited, path |-> path]
            ELSE LET ids == TaskIdList(plan_tasks)
                     dependencies ==
                         IF task_id \in TaskIdsOf(plan_tasks)
                         THEN plan_tasks[CHOOSE i \in 1..Len(ids) :
                                            /\ ids[i] = task_id
                                            /\ \A j \in 1..(i - 1) : ids[j] # task_id]
                                 .dependencies
                         ELSE <<>>
                     r == visit_dependencies(dependencies, 1, visited \cup {task_id},
                                             path \cup {task_id})
                 IN  IF r.found THEN r
                     ELSE [found |-> FALSE, visited |-> r.visited,
                           path |-> r.path \ {task_id}]
        visit_dependencies(dependencies, i, visited, path) ==
            IF i > Len(dependencies)
            THEN [found |-> FALSE, visited |-> visited, path |-> path]
            ELSE LET r == visit(dependencies[i], visited, path)
                 IN  IF r.found THEN r
                     ELSE visit_dependencies(dependencies, i + 1, r.visited, r.path)
    IN  visit(task.id, {}, {}).found

\* IntentParser._validate_task: returns, or raises the ValueError of the
\* first check that fails
validate_task(task, plan_tasks) ==
    LET prefix == AppText.Task \o task.id
        missing == { i \in 1..Len(task.dependencies) :
                        task.dependencies[i] \notin TaskIdsOf(plan_tasks) }
    IN  IF ~HasKey(Registry, task.agent_type)
        THEN Raised(AgentText.ValueError,
                    prefix \o AppText.UnknownAgentType \o task.agent_type \o <<"'">>, 0)
        ELSE IF \A i \in 1..Len(Lookup(Registry, task.agent_type).items) :
                    Lookup(Registry, task.agent_type).items[i] # VStr(task.mode)
        THEN Raised(AgentText.ValueError,
                    prefix \o AppText.InvalidMode \o task.mode \o AppText.ForAgent
                        \o task.agent_type \o AppText.AvailableModes
                        \o Repr(Lookup(Registry, task.agent_type)), 0)
        ELSE IF missing # {}
        THEN Raised(AgentText.ValueError,
                    prefix \o AppText.Dependency
                        \o task.dependencies[CHOOSE i \in missing : \A j \in missing : i <= j]
                        \o AppText.NotInTaskList, 0)
        ELSE IF check_circular_dependencies(task, plan_tasks)
        THEN Raised(AgentText.ValueError, AppText.Circular \o task.id, 0)
        ELSE Returned(VNone, 0)

\* IntentParser.parse_intent after the call of the model: _parse_json_response,
\* _validate_response, _build_execution_plan, _validate_execution_plan
parse_intent(response) ==
    LET parsed == response.parsed
        execution == Lookup(parsed, AppText.execution_type)
        task_list == Lookup(parsed, AppText.tasks)
        plan_tasks ==
            [i \in 1..Len(task_list.items) |->
                LET task_data == task_list.items[i]
                IN  [id |-> Lookup(task_data, AppText.id).s,
                     agent_type |-> Lookup(task_data, AppText.agent_type).s,
                     mode |-> Lookup(task_data, AppText.mode).s,
                     dependencies |->
                         [j \in 1..Len(GetOr(task_data, AppText.dependencies,
                                             VList(<<>>)).items) |->
                             GetOr(task_data, AppText.dependencies,
                                   VList(<<>>)).items[j].s]]]
        invalid == { i \in 1..Len(plan_tasks) : validate_task(plan_tasks[i], plan_tasks).raised }
    IN  IF ~response.json
        THEN Raised(AgentText.ValueError, AppText.InvalidJson, 0)
        ELSE IF ~HasKey(parsed, AppText.tasks)
        THEN Raised(AgentText.ValueError, AppText.MissingTasks, 0)
        ELSE IF ~HasKey(parsed, AppText.execution_type)
        THEN Raised(AgentText.ValueError, AppText.MissingExecutionType, 0)
        ELSE IF execution \notin {VStr(AppText.parallel), VStr(AppText.sequential)}
        THEN Raised(AgentText.ValueError,
                    AppText.InvalidExecutionType \o PyStr(execution) \o AppText.MustBe, 0)
        ELSE IF task_list.k # "list"
        THEN Raised(AgentText.ValueError, AppText.TasksNotList, 0)
        ELSE IF Len(task_list.items) = 0
        THEN Raised(AgentText.ValueError, AppText.TasksEmpty, 0)
        ELSE IF invalid # {}
        THEN validate_task(plan_tasks[CHOOSE i \in invalid : \A j \in invalid : i <= j],
                           plan_tasks)
        ELSE [raised |-> FALSE, exc |-> NoException,
              value |-> [tasks |-> plan_tasks, execution_type |-> execution.s], calls |-> 0]

\* the answers of the model: text that is not JSON, objects with a field
\* missing or of the wrong type, and objects with up to three tasks
\* task_1, task_2, task_3 whose dependencies are no id, one of these three
\* ids, or one of them and the next; the first task is of any of the kinds
\* of FirstTasks, the others send mail
ModelOutputs ==
    LET FirstTasks ==
            { <<EngineText.gmail, AppText.read>>,
              <<EngineText.github, AppText.list_repos>>,
              <<EngineText.gmail, AppText.list_repos>>,
              <<PlanText.slack, AppText.post>>,
              <<AppText.error, AppText.error>> }
        DependencyLists ==
            { <<>> } \cup { <<a>> : a \in AllPlanIds }
                \cup { <<PlanIds[i], PlanIds[(i % Len(PlanIds)) + 1]>> : i \in 1..Len(PlanIds) }
        TaskData(i, first, dependencies) ==
            LET kind == IF i = 1 THEN first ELSE <<EngineText.gmail, AppText.send>>
                named == <<AppText.id, AppText.agent_type, AppText.mode>>
                given == <<VStr(PlanIds[i]), VStr(kind[1]), VStr(kind[2])>>
            IN  IF dependencies = <<>> /\ i = 1 THEN VMap(named, given)
                ELSE VMap(Append(named, AppText.dependencies),
                          Append(given, VList([j \in 1..Len(dependencies) |->
                                                  VStr(dependencies[j])])))
        Answer(parsed) == [json |-> TRUE, parsed |-> parsed]
        TaskLists ==
            UNION { { VList([i \in 1..n |-> TaskData(i, first, dependencies[i])]) :
                        first \in FirstTasks, dependencies \in [1..n -> DependencyLists] } :
                    n \in 0..Len(PlanIds) }
    IN  { [json |-> FALSE, parsed |-> VNone],
          Answer(VMap(<<AppText.execution_type>>, <<VStr(AppText.parallel)>>)),
          Answer(VMap(<<AppText.tasks>>, <<VList(<<>>)>>)),
          Answer(VMap(<<AppText.tasks, AppText.execution_type>>,
                      <<VStr(AppText.read), VStr(AppText.parallel)>>)) }
        \cup { Answer(VMap(<<AppText.tasks, AppText.execution_type>>,
                           <<task_list, VStr(execution)>>)) :
                  task_list \in TaskLists,
                  execution \in {AppText.parallel, AppText.sequential,
                                 AppText.serial} }

InitParse ==
    /\ fn_pc = "call"
    /\ fn_args \in ModelOutputs
    /\ fn_ret = <<>>
    /\ EngineUnused
    /\ AppUnused

\* parse_intent is called on the answer
ParseResponse ==
    /\ fn_pc = "call"
    /\ fn_pc' = "ret"
    /\ fn_ret' = parse_intent(fn_args)
    /\ UNCHANGED <<fn_args, engineVars, appVars>>

NextParse == ParseResponse

SpecParse == InitParse /\ [][NextParse]_vars

----------------------------------------------------------------------------
(* Properties of the parser                                                *)

\* the pairs (task, task it depends on) of a list of tasks, each given by
\* its id and its dependencies
EdgesOf(ids, dependencies) ==
    { <<ids[i], dependencies[i][j]>> : <<i, j>> \in
        { p \in (1..Len(ids)) \X (1..2) : p[2] <= Len(dependencies[p[1]]) } }

\* the pairs joined by a chain of at most k + 1 edges
RECURSIVE ChainsOf(_, _)
ChainsOf(edges, k) ==
    IF k = 0 THEN edges
    ELSE LET shorter == ChainsOf(edges, k - 1)
         IN  shorter \cup { <<p[1], q[2]>> : <<p, q>> \in
                              { pq \in shorter \X edges : pq[1][2] = pq[2][1] } }

Cyclic(edges) == \E e \in ChainsOf(edges, Len(PlanIds)) : e[1] = e[2]

\* the answer is an object with a list of tasks and a valid execution_type
WellFormedAnswer ==
    /\ fn_args.json
    /\ HasKey(fn_args.parsed, AppText.tasks)
    /\ HasKey(fn_args.parsed, AppText.execution_type)
    /\ Lookup(fn_args.parsed, AppText.tasks).k = "list"
    /\ Len(Lookup(fn_args.parsed, AppText.tasks).items) > 0
    /\ Lookup(fn_args.parsed, AppText.execution_type).s
          \in {AppText.parallel, AppText.sequential}

AnsweredTasks == Lookup(fn_args.parsed, AppText.tasks).items

AnsweredIds == [i \in 1..Len(AnsweredTasks) |-> Lookup(AnsweredTasks[i], AppText.id).s]

AnsweredDependencies ==
    [i \in 1..Len(AnsweredTasks) |->
        IF HasKey(AnsweredTasks[i], AppText.dependencies)
        THEN [j \in 1..Len(Lookup(AnsweredTasks[i], AppText.dependencies).items) |->
                 Lookup(AnsweredTasks[i], AppText.dependencies).items[j].s]
        ELSE <<>>]

AnsweredEdges == EdgesOf(AnsweredIds, AnsweredDependencies)

SentinelAnswer ==
    /\ WellFormedAnswer
    /\ Len(AnsweredTasks) = 1
    /\ Lookup(AnsweredTasks[1], AppText.agent_type) = VStr(AppText.error)
    /\ AnsweredDependencies[1] = <<>>

\* C15: for an answer that is a single task of agent_type "error",
\* parse_intent returns a plan holding that task.
C15_SentinelPassedThrough ==
    (fn_pc = "ret" /\ SentinelAnswer) =>
        /\ ~fn_ret.raised
        /\ Len(fn_ret.value.tasks) = 1
        /\ fn_ret.value.tasks[1].agent_type = AppText.error

(***************************************************************************)
(* OAuth manager: ensure_gmail_auth, ensure_github_auth and the callback   *)
(* listener                                                                *)
(*                                                                         *)
(* One user.  db_credentials holds the record of each service, VNone when  *)
(* there is none.  Time is counted in minutes.  callback_server is the     *)
(* socket of the HTTPServer on localhost:8080: "closed" when nothing is    *)
(* bound, "listening" while a thread is in handle_request, "handled" when  *)
(* that thread has served its request and the attempt that owns the server *)
(* has not returned yet.  A server whose thread has ended is reclaimed,    *)
(* and its socket closed, when the attempt returns; a thread still in      *)
(* handle_request keeps its server, and the socket, alive.                 *)
(***************************************************************************)

MaxAuthCalls == 2

\* str.encode: the UTF-8 bytes of a character; "e'" stands for a character
\* of two bytes
Utf8(c) == IF c = "e'" THEN <<"C3", "A9">> ELSE <<c>>

RECURSIVE encode(_)
encode(text) ==
    IF Len(text) = 0 THEN <<>> ELSE Utf8(Head(text)) \o encode(Tail(text))

\* bytes.decode: the text of the bytes, or UnicodeDecodeError
RECURSIVE decode(_)
decode(bytes) ==
    IF Len(bytes) = 0 THEN [ok |-> TRUE, text |-> <<>>]
    ELSE IF Head(bytes) = "C3"
    THEN IF Len(bytes) >= 2 /\ bytes[2] = "A9"
         THEN LET rest == decode(SubSeq(bytes, 3, Len(bytes)))
              IN  [ok |-> rest.ok, text |-> <<"e'">> \o rest.text]
         ELSE [ok |-> FALSE, text |-> <<>>]
    ELSE IF Head(bytes) = "A9" THEN [ok |-> FALSE, text |-> <<>>]
    ELSE LET rest == decode(Tail(bytes))
         IN  [ok |-> rest.ok, text |-> <<Head(bytes)>> \o rest.text]

\* CredentialStore.encrypt_token: the salt and the token inside a Fernet
\* token of initialisation vector iv
encrypt_token(token, iv) ==
    IF Len(token) = 0 THEN Raised(AgentText.ValueError, AppText.EmptyToken, 0)
    ELSE Returned(VStr(AppText.fernet \o <<iv>> \o encode(AppText.token_salt)
                         \o encode(token)), 0)

\* decrypt_token without the removal of the salt
decrypt_keeping_salt(encrypted_token) ==
    IF ~Truthy(encrypted_token)
    THEN Raised(AgentText.ValueError, AppText.EmptyEncrypted, 0)
    ELSE LET text == encrypted_token.s
             head == Len(AppText.fernet) + 1
             token == decode(SubSeq(text, head + 1, Len(text)))
         IN  IF /\ Len(text) >= head
                /\ SubSeq(text, 1, Len(AppText.fernet)) = AppText.fernet
                /\ token.ok
             THEN Returned(VStr(token.text), 0)
             ELSE Raised(AgentText.ValueError, AppText.DecryptFailed, 0)

\* CredentialStore.decrypt_token
decrypt_token(encrypted_token) ==
    IF ~Truthy(encrypted_token)
    THEN Raised(AgentText.ValueError, AppText.EmptyEncrypted, 0)
    ELSE LET text == encrypted_token.s
             head == Len(AppText.fernet) + 1
             decrypted == SubSeq(text, head + 1, Len(text))
             token == decode(SubSeq(decrypted, Len(encode(AppText.token_salt)) + 1,
                                    Len(decrypted)))
         IN  IF /\ Len(text) >= head
                /\ SubSeq(text, 1, Len(AppText.fernet)) = AppText.fernet
                /\ token.ok
             THEN Returned(VStr(token.text), 0)
             ELSE Raised(AgentText.ValueError, AppText.DecryptFailed, 0)

\* CredentialStore.encrypt_credentials, and the document store_credentials
\* is given
credentials_doc(access_token, refresh_token, token_expiry, iv) ==
    [ encrypted_token |-> encrypt_token(access_token, iv).value,
      encrypted_refresh_token |->
          IF Truthy(refresh_token) THEN encrypt_token(refresh_token.s, iv).value ELSE VNone,
      token_expiry |-> token_expiry ]

\* the write is not made
store_credentials_dropped(collection, service, doc, written) == collection

\* store_credentials: the upsert keyed by the service; written is FALSE when
\* the database fails, which the function swallows
store_credentials(collection, service, doc, written) ==
    IF written THEN [collection EXCEPT ![service] = doc] ELSE collection

\* the buffer compared strictly: an expiry exactly five minutes ahead is
\* not yet due
needs_refresh_strictly_within(token_expiry, now) ==
    /\ token_expiry # VNone
    /\ now + 5 > token_expiry.n

\* every token with an expiry is refreshed
needs_refresh_whenever_expiry(token_expiry, now) == token_expiry # VNone

\* check_gmail_auth, lines 226-229: the five-minute buffer
needs_refresh(token_expiry, now) ==
    /\ token_expiry # VNone
    /\ now + 5 >= token_expiry.n

\* GmailOAuthManager.check_gmail_auth: creds is what get_credentials gave
check_gmail_auth(creds, now) ==
    IF creds = VNone
    THEN [authenticated |-> FALSE, needs_refresh |-> FALSE, credentials |-> VNone]
    ELSE [authenticated |-> TRUE, needs_refresh |-> needs_refresh(creds.token_expiry, now),
          credentials |-> creds]

\* the stored token is taken as valid without asking GitHub
check_github_auth_unvalidated(creds, validated) ==
    IF creds = VNone \/ decrypt_token(creds.encrypted_token).raised
    THEN [authenticated |-> FALSE, valid |-> FALSE, credentials |-> VNone]
    ELSE [authenticated |-> TRUE, valid |-> TRUE, credentials |-> creds]

\* GitHubOAuthManager.check_github_auth: validated is whether GitHub accepts
\* the decrypted token (validate_github_token)
check_github_auth(creds, validated) ==
    IF creds = VNone \/ decrypt_token(creds.encrypted_token).raised
    THEN [authenticated |-> FALSE, valid |-> FALSE, credentials |-> VNone]
    ELSE [authenticated |-> TRUE, valid |-> validated, credentials |-> creds]

\* a failed refresh answered by a new interactive authorization
ensure_gmail_auth_reauthorizing(creds, now, refreshed, iv) ==
    LET auth_status == check_gmail_auth(creds, now)
        refresh_token == decrypt_token(creds.encrypted_refresh_token)
        new_tokens == [refreshed.value EXCEPT
                          !.refresh_token = IF Truthy(@) THEN @ ELSE refresh_token.value]
    IN  IF \/ ~auth_status.authenticated
           \/ auth_status.needs_refresh /\ (refresh_token.raised \/ refreshed.raised)
        THEN [path |-> "interactive", ret |-> Returned(VNone, 0), doc |-> VNone,
              refreshes |-> 0]
        ELSE IF ~auth_status.needs_refresh
        THEN [path |-> "stored", ret |-> decrypt_token(creds.encrypted_token),
              doc |-> VNone, refreshes |-> 0]
        ELSE [path |-> "refresh", ret |-> Returned(VStr(new_tokens.access_token), 0),
              doc |-> credentials_doc(new_tokens.access_token, new_tokens.refresh_token,
                                      new_tokens.token_expiry, iv),
              refreshes |-> 1]

\* LazyAuthManager.ensure_gmail_auth up to the interactive flow: the path
\* taken, what is returned or raised on it, the document given to
\* store_credentials and the number of refresh requests made.  refreshed is
\* the answer of the token endpoint.
ensure_gmail_auth(creds, now, refreshed, iv) ==
    LET auth_status == check_gmail_auth(creds, now)
        refresh_token == decrypt_token(creds.encrypted_refresh_token)
        new_tokens == [refreshed.value EXCEPT
                          !.refresh_token = IF Truthy(@) THEN @ ELSE refresh_token.value]
    IN  IF ~auth_status.authenticated
        THEN [path |-> "interactive", ret |-> Returned(VNone, 0), doc |-> VNone,
              refreshes |-> 0]
        ELSE IF ~auth_status.needs_refresh
        THEN [path |-> "stored", ret |-> decrypt_token(creds.encrypted_token),
              doc |-> VNone, refreshes |-> 0]
        ELSE IF refresh_token.raised
        THEN [path |-> "refresh", ret |-> refresh_token, doc |-> VNone, refreshes |-> 0]
        ELSE IF refreshed.raised
        THEN [path |-> "refresh", ret |-> refreshed, doc |-> VNone, refreshes |-> 1]
        ELSE [path |-> "refresh", ret |-> Returned(VStr(new_tokens.access_token), 0),
              doc |-> credentials_doc(new_tokens.access_token, new_tokens.refresh_token,
                                      new_tokens.token_expiry, iv),
              refreshes |-> 1]

\* LazyAuthManager.ensure_github_auth up to the interactive flow
ensure_github_auth(creds, validated) ==
    LET auth_status == check_github_auth(creds, validated)
    IN  IF auth_status.authenticated /\ auth_status.valid
        THEN [path |-> "stored", ret |-> decrypt_token(creds.encrypted_token)]
        ELSE [path |-> "interactive", ret |-> Returned(VNone, 0)]

\* OAuthCallbackHandler.do_GET: params is the parsed query of the request
do_GET(handler, params) ==
    IF params.code # VNone
    THEN [handler EXCEPT !.authorization_code = params.code]
    ELSE IF params.error # VNone
    THEN [handler EXCEPT !.oauth_error = params.error]
    ELSE handler

\* an error callback is not looked at
wait_without_error_check(handler) ==
    IF ~Truthy(handler.authorization_code)
    THEN Raised(RaisedText.Exception, RaisedText.OAuthTimedOut, 0)
    ELSE Returned(handler.authorization_code, 0)

\* initiate_gmail_oauth lines 135-139, initiate_github_oauth lines 294-298:
\* what the attempt does when join has returned
wait_for_callback(handler) ==
    IF Truthy(handler.oauth_error)
    THEN Raised(RaisedText.Exception, AppText.OAuthError \o handler.oauth_error.s, 0)
    ELSE IF ~Truthy(handler.authorization_code)
    THEN Raised(RaisedText.Exception, RaisedText.OAuthTimedOut, 0)
    ELSE Returned(handler.authorization_code, 0)

\* the records found stored, the clock, the initialisation vectors, the
\* answers of the token endpoints and the requests the listener receives
AuthInputs ==
    [ now |-> {0, 1},
      iv |-> {"0", "1"},
      gmail |->
          {VNone}
          \cup { credentials_doc(AppText.ya29_a, VStr(AppText.refresh_1), token_expiry, "0") :
                   token_expiry \in {VNone, VInt(5), VInt(6), VInt(30)} }
          \cup { credentials_doc(AppText.ya29_a, VNone, VInt(5), "0"),
                 [ credentials_doc(AppText.ya29_a, VStr(AppText.refresh_1), VInt(5), "0")
                     EXCEPT !.encrypted_refresh_token = VStr(AppText.not_a_token) ],
                 [ credentials_doc(AppText.ya29_a, VStr(AppText.refresh_1), VInt(30), "0")
                     EXCEPT !.encrypted_token = VStr(AppText.not_a_token) ] },
      github |->
          { VNone,
            credentials_doc(AppText.gho_a, VNone, VNone, "0"),
            [ credentials_doc(AppText.gho_a, VNone, VNone, "0")
                EXCEPT !.encrypted_token = VStr(AppText.not_a_token) ] },
      refreshed |->
          { Returned([access_token |-> AppText.ya29_b, refresh_token |-> VNone,
                      token_expiry |-> VInt(60)], 0),
            Raised(RaisedText.Exception, AppText.TokenRefreshFailed, 0) },
      exchanged |->
          [ gmail |->
              { Returned([access_token |-> AppText.ya29_b, refresh_token |-> refresh_token,
                          token_expiry |-> VInt(60)], 0) :
                  refresh_token \in {VNone, VStr(AppText.refresh_1)} }
              \cup { Raised(AppText.InvalidGrantError, AppText.invalid_grant, 0) },
            github |->
              { Returned([access_token |-> AppText.gho_b, refresh_token |-> VNone,
                          token_expiry |-> VNone], 0),
                Raised(RaisedText.Exception, AppText.TokenExchangeError, 0) } ],
      callbacks |->
          { [code |-> code, error |-> error] :
              code \in {VNone, VStr(AppText.auth_code)},
              error \in {VNone, VStr(AppText.access_denied)} } ]

\* no call has been made: the credentials are those of earlier runs and
\* nothing is bound to the port
InitAuth ==
    /\ EngineUnused
    /\ HarnessUnused
    /\ main_pc = "unused"
    /\ user_input = <<>>
    /\ conversation_history = <<>>
    /\ db_sessions = <<>>
    /\ main_log = <<>>
    /\ DataUnused
    /\ db_credentials \in [gmail : AuthInputs.gmail, github : AuthInputs.github]
    /\ callback_server = "closed"
    /\ callback_handler = [authorization_code |-> VNone, oauth_error |-> VNone]
    /\ auth_pc = "idle"
    /\ auth_log = [calls |-> 0, now |-> 0, service |-> "none", path |-> "none",
                   before |-> db_credentials, read |-> VNone, refreshes |-> 0,
                   flows |-> 0, callbacks |-> <<>>, waited |-> "none", exchanges |-> 0,
                   stores |-> <<>>, written |-> FALSE, validated |-> FALSE,
                   ret |-> Returned(VNone, 0)]

\* initiate_gmail_oauth lines 118-124, initiate_github_oauth lines 277-283:
\* the class attributes are reset and the server is bound; binding fails
\* while an earlier listener holds the port
initiate_oauth(started) ==
    /\ callback_handler' = [authorization_code |-> VNone, oauth_error |-> VNone]
    /\ IF callback_server = "listening"
       THEN /\ auth_log' = [started EXCEPT
                              !.flows = 1,
                              !.ret = Raised(AppText.OSError, AppText.AddressInUse, 0)]
            /\ UNCHANGED <<callback_server, auth_pc>>
       ELSE /\ auth_log' = [started EXCEPT !.flows = 1]
            /\ callback_server' = "listening"
            /\ auth_pc' = "waiting"
    /\ UNCHANGED db_credentials

\* ensure_gmail_auth is called: it returns or raises on the stored and on
\* the refresh path, and waits for the callback on the interactive one
EnsureGmailAuth ==
    /\ auth_pc = "idle"
    /\ auth_log.calls < MaxAuthCalls
    /\ \E now \in {n \in AuthInputs.now : n >= auth_log.now}, found \in BOOLEAN,
          refreshed \in AuthInputs.refreshed, iv \in AuthInputs.iv, written \in BOOLEAN :
          LET creds == IF found THEN db_credentials.gmail ELSE VNone
              step == ensure_gmail_auth(creds, now, refreshed, iv)
              started == [calls |-> auth_log.calls + 1, now |-> now, service |-> "gmail",
                          path |-> step.path, before |-> db_credentials, read |-> creds,
                          refreshes |-> step.refreshes, flows |-> 0, callbacks |-> <<>>,
                          waited |-> "none", exchanges |-> 0, stores |-> <<>>,
                          written |-> FALSE, validated |-> FALSE, ret |-> step.ret]
          IN  IF step.path = "interactive"
              THEN initiate_oauth(started)
              ELSE /\ db_credentials' =
                         IF step.doc = VNone THEN db_credentials
                         ELSE store_credentials(db_credentials, "gmail", step.doc, written)
                   /\ auth_log' =
                         IF step.doc = VNone THEN started
                         ELSE [started EXCEPT !.stores = <<step.doc>>, !.written = written]
                   /\ UNCHANGED <<callback_server, callback_handler, auth_pc>>
    /\ UNCHANGED <<engineVars, fnVars, main_pc, user_input, conversation_history,
                   db_sessions, main_log, dataVars>>

\* ensure_github_auth is called
EnsureGithubAuth ==
    /\ auth_pc = "idle"
    /\ auth_log.calls < MaxAuthCalls
    /\ \E now \in {n \in AuthInputs.now : n >= auth_log.now}, found \in BOOLEAN,
          validated \in BOOLEAN :
          LET creds == IF found THEN db_credentials.github ELSE VNone
              step == ensure_github_auth(creds, validated)
              started == [calls |-> auth_log.calls + 1, now |-> now, service |-> "github",
                          path |-> step.path, before |-> db_credentials, read |-> creds,
                          refreshes |-> 0, flows |-> 0, callbacks |-> <<>>,
                          waited |-> "none", exchanges |-> 0, stores |-> <<>>,
                          written |-> FALSE, validated |-> validated, ret |-> step.ret]
          IN  IF step.path = "interactive"
              THEN initiate_oauth(started)
              ELSE /\ auth_log' = started
                   /\ UNCHANGED <<db_credentials, callback_server, callback_handler, auth_pc>>
    /\ UNCHANGED <<engineVars, fnVars, main_pc, user_input, conversation_history,
                   db_sessions, main_log, dataVars>>

\* server.handle_request serves one request and the listener thread ends;
\* a request that comes after the attempt has timed out is served too
HandleRequest ==
    /\ callback_server = "listening"
    /\ \E params \in AuthInputs.callbacks :
          /\ callback_handler' = do_GET(callback_handler, params)
          /\ auth_log' = IF auth_pc = "waiting"
                         THEN [auth_log EXCEPT !.callbacks = Append(@, params)]
                         ELSE auth_log
    /\ callback_server' = IF auth_pc = "waiting" THEN "handled" ELSE "closed"
    /\ UNCHANGED <<db_credentials, auth_pc, engineVars, fnVars, main_pc, user_input,
                   conversation_history, db_sessions, main_log, dataVars>>

\* server_thread.join returns, the listener thread having ended or the 300
\* seconds having passed; the attempt fails or exchanges the code, and
\* ensure_*_auth stores the tokens and returns
JoinReturns ==
    /\ auth_pc = "waiting"
    /\ \E exchanged \in AuthInputs.exchanged[auth_log.service], iv \in AuthInputs.iv,
          written \in BOOLEAN :
          LET callback == wait_for_callback(callback_handler)
              tokens == exchanged.value
              doc == IF auth_log.service = "gmail"
                     THEN credentials_doc(tokens.access_token, tokens.refresh_token,
                                          tokens.token_expiry, iv)
                     ELSE credentials_doc(tokens.access_token, VNone, VNone, iv)
              waited == [auth_log EXCEPT
                           !.waited = IF callback_server = "handled" THEN "callback"
                                      ELSE "timeout"]
          IN  IF callback.raised
              THEN /\ auth_log' = [waited EXCEPT !.ret = callback]
                   /\ UNCHANGED db_credentials
              ELSE IF exchanged.raised
              THEN /\ auth_log' = [waited EXCEPT !.exchanges = 1, !.ret = exchanged]
                   /\ UNCHANGED db_credentials
              ELSE /\ auth_log' = [waited EXCEPT
                                     !.exchanges = 1, !.stores = <<doc>>,
                                     !.written = written,
                                     !.ret = Returned(VStr(tokens.access_token), 0)]
                   /\ db_credentials' =
                         store_credentials(db_credentials, auth_log.service, doc, written)
    /\ callback_server' = IF callback_server = "handled" THEN "closed" ELSE callback_server
    /\ auth_pc' = "idle"
    /\ UNCHANGED <<callback_handler, engineVars, fnVars, main_pc, user_input,
                   conversation_history, db_sessions, main_log, dataVars>>

NextAuth ==
    \/ EnsureGmailAuth
    \/ EnsureGithubAuth
    \/ HandleRequest
    \/ JoinReturns

SpecAuth == InitAuth /\ [][NextAuth]_vars

(***************************************************************************)
(* Properties of the OAuth manager                                         *)
(***************************************************************************)

\* the call of ensure_*_auth for the service has returned or raised
AuthCallEnded(service) ==
    /\ auth_log.calls > 0
    /\ auth_log.service = service
    /\ auth_pc = "idle"

\* the last document given to store_credentials holds the token returned,
\* and is the record of the service when the write was made
StoredIsReturned(service) ==
    /\ Len(auth_log.stores) = 1
    /\ decrypt_token(auth_log.stores[1].encrypted_token) = Returned(auth_log.ret.value, 0)
    /\ auth_log.written => db_credentials[service] = auth_log.stores[1]

StoredGithubTokenValid ==
    /\ auth_log.read # VNone
    /\ ~decrypt_token(auth_log.read.encrypted_token).raised
    /\ auth_log.validated

C19_ListenerTornDown ==
    /\ auth_pc = "idle" => callback_server = "closed"
    /\ auth_log.ret.exc.type # AppText.OSError

\* C20: an attempt exchanges a code only when its callback carried one; a
\* callback carrying an error and no code fails the attempt with the
\* exception "OAuth error: " followed by the error text, and a wait that
\* ends with no callback fails with the timeout exception; an attempt that
\* fails gives nothing to store_credentials and leaves the stored records
\* as they were.
C20_AttemptOutcomeFollowsCallback ==
    (auth_log.calls > 0 /\ auth_pc = "idle" /\ auth_log.waited # "none") =>
        /\ auth_log.exchanges = 1 =>
              /\ Len(auth_log.callbacks) = 1
              /\ auth_log.callbacks[1].code # VNone
        /\ (/\ Len(auth_log.callbacks) = 1
            /\ auth_log.callbacks[1].code = VNone
            /\ auth_log.callbacks[1].error # VNone) =>
              auth_log.ret = Raised(RaisedText.Exception,
                                    AppText.OAuthError \o auth_log.callbacks[1].error.s, 0)
        /\ auth_log.callbacks = <<>> =>
              /\ auth_log.waited = "timeout"
              /\ auth_log.ret = Raised(RaisedText.Exception, RaisedText.OAuthTimedOut, 0)
        /\ auth_log.ret.raised =>
              /\ auth_log.stores = <<>>
              /\ db_credentials = auth_log.before

\* an error callback failed the attempt that was to replace a stored token
C20_Witness ==
    /\ AuthCallEnded("github")
    /\ auth_log.before.github # VNone
    /\ Len(auth_log.callbacks) = 1
    /\ auth_log.callbacks[1].error = VStr(AppText.access_denied)
    /\ auth_log.ret.raised
    /\ db_credentials = auth_log.before

(***************************************************************************)
(* Further properties of the engine                                        *)
(***************************************************************************)

\* the step calls agent.execute_task for task i: a turn of the sequential
\* loop that executes it, or its worker starting
AttemptOf(i) ==
    /\ \/ /\ SeqExecuteTask
          /\ IndexOfTask(ordered_task_ids[cursor]) = i
       \/ ParStart(i)
    /\ calls'[i].invoked

\* C26: during one run of the engine execute_task is invoked at most once
\* for each task of the plan: the order of the sequential loop names no
\* task twice, and no step invokes the agent for a task it was already
\* invoked for, whatever the result of the first invocation.
C26_EachTaskAttemptedOnce ==
    /\ [](pc = "sequential" =>
            \A m, n \in 1..Len(ordered_task_ids) :
                ordered_task_ids[m] = ordered_task_ids[n] => m = n)
    /\ [][\A i \in 1..Len(tasks) : AttemptOf(i) => ~calls[i].invoked]_vars

\* the run is over, and a task that was attempted has an error result
\* whose metadata marks it retryable
C26_Witness ==
    /\ pc = "returned"
    /\ \E i \in 1..Len(tasks) :
          /\ calls[i].invoked
          /\ StatusOf(get_result(context, tasks[i].id)) = VStr(AgentText.error)
          /\ GetOr(GetOr(get_result(context, tasks[i].id), AgentText.metadata, VNone),
                   AgentText.retryable, VNone) = VBool(TRUE)

\* The required inputs whose own lookup succeeds, each with the value its own
\* lookup gives, in the order of required_inputs.
ExtractedAlone(ctx, required_inputs) ==
    LET n    == Len(required_inputs.keys)
        good == SelectSeq([i \in 1..n |-> i],
                          LAMBDA i : ExtractOne(ctx, required_inputs.items[i].s).ok)
    IN  VMap([j \in 1..Len(good) |-> required_inputs.keys[good[j]]],
             [j \in 1..Len(good) |-> ExtractOne(ctx, required_inputs.items[good[j]].s).v])

\* The sequential loop takes up a task that has required inputs and whose
\* dependencies all succeeded.
TakesUp(i) ==
    /\ pc = "sequential"
    /\ cursor <= Len(ordered_task_ids)
    /\ IndexOfTask(ordered_task_ids[cursor]) = i
    /\ Len(FailedDeps(tasks[i].dependencies, context, 1)) = 0
    /\ Truthy(tasks[i].required_inputs)
    /\ (cursor' # cursor \/ pc' # pc)

\* C30: when the sequential loop takes up a task with required inputs, a lookup
\* error for one required input (no result for the source task, an index out
\* of range, a field of a value that is no map) leaves out that parameter
\* only: every other required input is extracted with the value its own
\* lookup gives, the parameters are filled from them, and the agent is invoked
\* with these parameters and its result appended to the results.
C30_LookupErrorOmitsOnlyThatInput ==
    [][\A i \in 1..Len(tasks) :
          TakesUp(i) =>
              LET extracted == ExtractedAlone(context, tasks[i].required_inputs)
                  filled    == FilledParameters(tasks[i].parameters, extracted)
              IN  /\ extract_required_data(context, tasks[i].required_inputs) = extracted
                  /\ calls'[i].invoked
                  /\ calls'[i].parameters = filled
                  /\ tasks'[i].parameters = filled
                  /\ pc' = pc => /\ Len(results') = Len(results) + 1
                                 /\ tasks'[i].status = "completed"]_vars

C30_Witness ==
    /\ pc = "returned"
    /\ Len(tasks) = 2
    /\ calls[2].invoked
    /\ tasks[2].status = "completed"
    /\ Len(tasks[2].required_inputs.keys) = 2
    /\ Lookup(calls[2].parameters, PlanText.first_repo) = VStr(PlanText.NoPlaceholder)
    /\ Lookup(calls[2].parameters, PlanText.body) # VStr(PlanText.HiTemplate)

(***************************************************************************)
(* BaseAgent.execute_task, step by step                                    *)
(*                                                                         *)
(* The call of InitAgent is taken one statement of the try block at a      *)
(* time: fn_pc is the statement about to run ("call" for the agent-type    *)
(* check), fn_ret keeps the statements that ran, the API calls counted so  *)
(* far and, at "ret", what execute_task returns.                           *)
(***************************************************************************)

\* every statement is followed by the next one, whatever it did
next_step_ignoring_failure(step, outcome) ==
    CASE step = "call" -> "authenticate"
      [] step = "authenticate" -> "validate_parameters"
      [] step = "validate_parameters" -> "execute"
      [] OTHER -> "ret"

\* execute_task, lines 139-172: an exception leaves the try block for the
\* except clause, which returns; otherwise the next statement runs
next_step(step, outcome) ==
    IF outcome.raised THEN "ret"
    ELSE CASE step = "call" -> "authenticate"
           [] step = "authenticate" -> "validate_parameters"
           [] step = "validate_parameters" -> "execute"
           [] OTHER -> "ret"

\* one statement of execute_task
ExecuteTaskStep ==
    /\ fn_pc \in {"call", "authenticate", "validate_parameters", "execute"}
    /\ LET self == fn_args.self
           task == fn_args.task
           behaviour == fn_args.behaviour
           before == IF fn_pc = "call" THEN [steps |-> <<>>, api_calls |-> 0] ELSE fn_ret
           runs == fn_pc = "authenticate" => self.oauth_required
           outcome ==
               CASE fn_pc = "call" ->
                        IF task.agent_type # self.agent_type
                        THEN Raised(AgentText.ValueError,
                                    AgentText.TaskAgentType \o task.agent_type
                                        \o AgentText.DoesNotMatch \o self.agent_type
                                        \o <<"'">>, 0)
                        ELSE Returned(VNone, 0)
                 [] fn_pc = "authenticate" ->
                        IF runs THEN behaviour.authenticate ELSE Returned(VNone, 0)
                 [] fn_pc = "validate_parameters" -> behaviour.validate_parameters
                 [] OTHER -> behaviour.execute
           api_calls == before.api_calls + outcome.calls
       IN  /\ fn_pc' = next_step(fn_pc, outcome)
           /\ fn_ret' =
                 [steps |-> IF runs THEN Append(before.steps, fn_pc) ELSE before.steps,
                  api_calls |-> api_calls,
                  failed |-> outcome.raised,
                  result |->
                      IF outcome.raised
                      THEN Returned(handle_error(self, outcome.exc, api_calls), api_calls)
                      ELSE IF fn_pc = "execute"
                      THEN Returned(format_output(self, outcome.value, api_calls), api_calls)
                      ELSE Returned(VNone, 0)]
    /\ UNCHANGED <<fn_args, engineVars, appVars>>

SpecAgentSteps == InitAgent /\ [][ExecuteTaskStep]_vars

\* the statements of the try block, in the order of the source
StepOrder == <<"call", "authenticate", "validate_parameters", "execute">>

\* C27: the statements of execute_task run in the order agent-type check,
\* authenticate, validate_parameters, execute; authenticate runs only when
\* OAuth is required; a statement that raises is the last one to run, so
\* execute runs only for a task whose agent type matches, whose
\* authentication (when required) succeeded and whose parameters are
\* valid; and what is returned is what execute_task gives in one piece.
C27_StepsInOrderStopAtFailure ==
    fn_pc # "call" =>
        /\ fn_ret.steps = SelectSeq(StepOrder,
                                    LAMBDA step : \E i \in 1..Len(fn_ret.steps) :
                                                      fn_ret.steps[i] = step)
        /\ fn_ret.steps[1] = "call"
        /\ (\E i \in 1..Len(fn_ret.steps) : fn_ret.steps[i] = "authenticate")
              => fn_args.self.oauth_required
        /\ (fn_pc \in {"validate_parameters", "execute", "ret"} /\ ~fn_ret.failed
            /\ fn_args.self.oauth_required)
              => fn_ret.steps[2] = "authenticate"
        /\ fn_ret.failed => fn_pc = "ret"
        /\ (\E i \in 1..Len(fn_ret.steps) : fn_ret.steps[i] = "execute") =>
              /\ fn_args.task.agent_type = fn_args.self.agent_type
              /\ fn_args.self.oauth_required => ~fn_args.behaviour.authenticate.raised
              /\ ~fn_args.behaviour.validate_parameters.raised
        /\ fn_pc = "ret" =>
              /\ fn_ret.result = execute_task(fn_args.self, fn_args.task, fn_args.behaviour)
              /\ AllStepsSucceeded(fn_args) => fn_ret.steps[Len(fn_ret.steps)] = "execute"

\* the parameters were invalid: validate_parameters was the last statement
\* to run, after the authentication
C27_Witness ==
    /\ fn_pc = "ret"
    /\ fn_ret.failed
    /\ fn_ret.steps = <<"call", "authenticate", "validate_parameters">>
    /\ fn_args.behaviour.validate_parameters.raised

(***************************************************************************)
(* Further properties of the application loop                              *)
(***************************************************************************)

\* C29: whenever the loop is back at the prompt, the persisted session's
\* conversation_history holds the same (user_input, system_response) pairs
\* as the in-memory conversation_history, in the same order.
C29_PersistedHistoryEqualsInMemory ==
    main_pc \in {"input", "exited"} =>
        /\ Len(db_sessions) = Len(conversation_history)
        /\ \A i \in 1..Len(db_sessions) :
              /\ db_sessions[i].user_input = conversation_history[i].user_input
              /\ db_sessions[i].system_response = conversation_history[i].system_response

(***************************************************************************)
(* The persisted Task records: create_task and update_task_status          *)
(***************************************************************************)

MaxTaskRecords == 2
MaxClock == 2

\* create_task's task_doc; now is what datetime.utcnow() returns
StampedTaskDocument(task_id, execution_plan, now) ==
    [task_id |-> task_id, execution_plan |-> execution_plan, status |-> "pending",
     results |-> VMap(<<>>, <<>>), error |-> VNone,
     created_at |-> VInt(now), completed_at |-> VNone, execution_time_ms |-> VNone]

\* create_task with its timestamps; written: insert_one did not raise
create_task_at(db, execution_plan, now, written) ==
    LET task_doc == StampedTaskDocument(NewUuid(db), execution_plan, now)
    IN  IF written THEN [ret |-> VStr(task_doc.task_id), db |-> Append(db, task_doc)]
        ELSE [ret |-> VNone, db |-> db]

\* update_task_status with its timestamps; reached: neither get_database,
\* find_one nor update_one raised
update_task_status_at(db, task_id, status, task_results, error, now, reached) ==
    LET found == {i \in 1..Len(db) : db[i].task_id = task_id}
        first == CHOOSE i \in found : \A j \in found : i <= j
        task  == db[first]
        with_status  == [task EXCEPT !.status = status]
        with_results == IF task_results # VNone
                        THEN [with_status EXCEPT !.results = task_results]
                        ELSE with_status
        with_error   == IF error # VNone
                        THEN [with_results EXCEPT !.error = error]
                        ELSE with_results
        updated      == IF status \in {"completed", "failed"}
                        THEN [with_error EXCEPT
                                 !.completed_at = VInt(now),
                                 !.execution_time_ms = VInt((now - task.created_at.n) * 1000)]
                        ELSE with_error
    IN  IF ~reached \/ found = {} THEN [ret |-> FALSE, db |-> db]
        ELSE [ret |-> updated # task, db |-> [db EXCEPT ![first] = updated]]

\* the shapes of the calls: the status with the results and the error given
StatusUpdates ==
    { [status |-> "pending", results |-> VNone, error |-> VNone],
      [status |-> "running", results |-> VNone, error |-> VNone],
      [status |-> "completed", results |-> VMap(<<PlanText.sent>>, <<VBool(TRUE)>>),
       error |-> VNone],
      [status |-> "failed", results |-> VNone, error |-> VStr(AgentText.error)] }

TaskRecordIds ==
    { <<"u", "u", "i", "d", "-">> \o NatText(n) : n \in 1..MaxTaskRecords } \cup {PlanText.task_1}

InitTasks ==
    /\ EngineUnused
    /\ AppUnused
    /\ fn_pc = "tasks"
    /\ fn_args = [op |-> "none", now |-> 0]
    /\ fn_ret = <<>>

UnusedByTasks ==
    UNCHANGED <<tasks, execution_type, pc, context, ordered_task_ids, cursor, results,
                threads, calls, raised, env, fn_pc, appVars>>

CreateTask ==
    /\ fn_pc = "tasks"
    /\ Len(db_tasks) < MaxTaskRecords
    /\ \E now \in fn_args.now..MaxClock, written \in BOOLEAN :
          LET created == create_task_at(db_tasks, <<PlanText.task_1>>, now, written)
          IN  /\ db_tasks' = created.db
              /\ fn_args' = [op |-> "create_task", now |-> now]
              /\ fn_ret' = created.ret
    /\ UnusedByTasks

UpdateTaskStatus ==
    /\ fn_pc = "tasks"
    /\ \E now \in fn_args.now..MaxClock, reached \in BOOLEAN,
          task_id \in TaskRecordIds, update \in StatusUpdates :
          LET updated == update_task_status_at(db_tasks, task_id, update.status,
                                               update.results, update.error, now, reached)
          IN  /\ db_tasks' = updated.db
              /\ fn_args' = [op |-> "update_task_status", now |-> now, task_id |-> task_id,
                             status |-> update.status]
              /\ fn_ret' = updated.ret
    /\ UnusedByTasks

NextTasks == CreateTask \/ UpdateTaskStatus

SpecTasks == InitTasks /\ [][NextTasks]_vars

Terminal(status) == status \in {"completed", "failed"}

\* C28: a record's status only moves from pending to completed or from
\* pending to failed, so that no update_task_status call changes the status of
\* a completed or failed record; completed_at and execution_time_ms change only
\* on a step that takes the record from pending into a terminal status; and
\* update_task_status on a task id without record returns False and changes
\* nothing.
C28_StatusOnlyLeavesPending ==
    [][/\ \A i \in 1..Len(db_tasks) :
             /\ db_tasks'[i].status # db_tasks[i].status
                   => db_tasks[i].status = "pending" /\ Terminal(db_tasks'[i].status)
             /\ (\/ db_tasks'[i].completed_at # db_tasks[i].completed_at
                 \/ db_tasks'[i].execution_time_ms # db_tasks[i].execution_time_ms)
                   => ~Terminal(db_tasks[i].status) /\ Terminal(db_tasks'[i].status)
       /\ (/\ fn_args'.op = "update_task_status"
           /\ \A i \in 1..Len(db_tasks) : db_tasks[i].task_id # fn_args'.task_id)
             => fn_ret' = FALSE /\ db_tasks' = db_tasks]_vars

(***************************************************************************)
(* The credentials collection: store, get and delete                       *)
(***************************************************************************)

Matching(collection, user_id, service) ==
    {i \in 1..Len(collection) :
        collection[i].user_id = user_id /\ collection[i].service = service}

FirstOf(S) == CHOOSE i \in S : \A j \in S : i <= j

\* insert_one in place of the upsert
insert_credentials(collection, doc) == Append(collection, doc)

\* store_credentials' update_one({user_id, service}, {"$set": doc}, upsert=True)
upsert_credentials(collection, doc) ==
    LET found == Matching(collection, doc.user_id, doc.service)
    IN  IF found = {} THEN Append(collection, doc)
        ELSE [collection EXCEPT ![FirstOf(found)] = doc]

\* store_credentials on the collection; reached: no PyMongoError
store_credentials_in(collection, doc, reached) ==
    IF reached THEN [ret |-> doc, db |-> upsert_credentials(collection, doc)]
    ELSE [ret |-> VNone, db |-> collection]

get_credentials(collection, user_id, service, reached) ==
    LET found == Matching(collection, user_id, service)
    IN  IF ~reached \/ found = {} THEN VNone ELSE collection[FirstOf(found)]

delete_credentials(collection, user_id, service, reached) ==
    LET found == Matching(collection, user_id, service)
        first == FirstOf(found)
    IN  IF ~reached \/ found = {} THEN [ret |-> FALSE, db |-> collection]
        ELSE [ret |-> TRUE,
              db |-> SubSeq(collection, 1, first - 1)
                       \o SubSeq(collection, first + 1, Len(collection))]

CredentialInputs ==
    [ pairs  |-> {p \in [user_id : {PlanText.default_user, PlanText.peter},
                         service : {EngineText.gmail, EngineText.github}] :
                     p.user_id = PlanText.default_user \/ p.service = EngineText.gmail},
      tokens |-> {VStr(AppText.ya29_a), VStr(AppText.ya29_b)} ]

\* auth_log holds, for each pair, what the latest store_credentials that was
\* written stored, or None when there is none or a delete_credentials came later
InitCredentials ==
    /\ EngineUnused
    /\ main_pc = "unused"
    /\ user_input = <<>>
    /\ conversation_history = <<>>
    /\ db_sessions = <<>>
    /\ main_log = <<>>
    /\ callback_server = "unused"
    /\ callback_handler = <<>>
    /\ auth_pc = "unused"
    /\ db_credentials = <<>>
    /\ auth_log = [p \in CredentialInputs.pairs |-> VNone]
    /\ DataUnused
    /\ fn_pc = "credentials"
    /\ fn_args = [op |-> "none"]
    /\ fn_ret = <<>>

UnusedByCredentials ==
    UNCHANGED <<engineVars, fn_pc, main_pc, user_input, conversation_history, db_sessions,
                main_log, callback_server, callback_handler, auth_pc, dataVars>>

StoreCredentials ==
    /\ fn_pc = "credentials"
    /\ \E p \in CredentialInputs.pairs, token \in CredentialInputs.tokens,
          reached \in BOOLEAN :
          LET doc == [user_id |-> p.user_id, service |-> p.service,
                      encrypted_token |-> token, encrypted_refresh_token |-> VNone,
                      token_expiry |-> VNone]
              stored == store_credentials_in(db_credentials, doc, reached)
          IN  /\ db_credentials' = stored.db
              /\ fn_args' = [op |-> "store_credentials", pair |-> p, reached |-> reached]
              /\ fn_ret' = stored.ret
              /\ auth_log' = IF reached THEN [auth_log EXCEPT ![p] = doc] ELSE auth_log
    /\ UnusedByCredentials

GetCredentials ==
    /\ fn_pc = "credentials"
    /\ \E p \in CredentialInputs.pairs, reached \in BOOLEAN :
          /\ fn_args' = [op |-> "get_credentials", pair |-> p, reached |-> reached]
          /\ fn_ret' = get_credentials(db_credentials, p.user_id, p.service, reached)
    /\ UNCHANGED <<db_credentials, auth_log>>
    /\ UnusedByCredentials

DeleteCredentials ==
    /\ fn_pc = "credentials"
    /\ \E p \in CredentialInputs.pairs, reached \in BOOLEAN :
          LET deleted == delete_credentials(db_credentials, p.user_id, p.service, reached)
          IN  /\ db_credentials' = deleted.db
              /\ fn_args' = [op |-> "delete_credentials", pair |-> p, reached |-> reached]
              /\ fn_ret' = deleted.ret
              /\ auth_log' = IF reached THEN [auth_log EXCEPT ![p] = VNone] ELSE auth_log
    /\ UnusedByCredentials

NextCredentials == StoreCredentials \/ GetCredentials \/ DeleteCredentials

SpecCredentials == InitCredentials /\ [][NextCredentials]_vars

MaxUserRecords == 3

UsersWithId(collection, user_id) ==
    {i \in 1..Len(collection) : collection[i].user_id = user_id}

\* get_user; reached: find_one did not raise PyMongoError
get_user(collection, user_id, reached) ==
    LET found == UsersWithId(collection, user_id)
    IN  IF ~reached \/ found = {} THEN VNone ELSE collection[FirstOf(found)]

\* create_user; insert_one raises DuplicateKeyError only when the collection
\* has the unique index on user_id; written: no other PyMongoError
create_user(collection, indexes, user_id, email, written) ==
    LET user_doc == [user_id |-> user_id, email |-> email]
    IN  IF ~written THEN [ret |-> VNone, db |-> collection]
        ELSE IF "users" \in indexes /\ UsersWithId(collection, user_id) # {}
        THEN [ret |-> VNone, db |-> collection]
        ELSE [ret |-> user_doc, db |-> Append(collection, user_doc)]

\* create_indexes; the unique index cannot be built over duplicates
create_indexes(collection, indexes, reached) ==
    IF reached /\ \A i, j \in 1..Len(collection) :
                      collection[i].user_id = collection[j].user_id => i = j
    THEN [ret |-> TRUE, indexes |-> {"users", "credentials", "sessions", "tasks"}]
    ELSE [ret |-> FALSE, indexes |-> indexes]

UserInputs ==
    [ user_id |-> {PlanText.default_user, PlanText.peter},
      email   |-> <<"u", "s", "e", "r", "@", "v", "i", "e", "n", "n", "a", ".",
                    "l", "o", "c", "a", "l">> ]

\* a fresh database: no records and no indexes; main_log counts, for each user
\* id, the create_user calls that returned a record
InitUsers ==
    /\ EngineUnused
    /\ AuthUnused
    /\ main_pc = "unused"
    /\ user_input = <<>>
    /\ conversation_history = <<>>
    /\ db_sessions = <<>>
    /\ main_log = [id \in UserInputs.user_id |-> 0]
    /\ db_users = <<>>
    /\ db_session_ids = <<>>
    /\ db_indexes = {}
    /\ fn_pc = "users"
    /\ fn_args = [op |-> "none"]
    /\ fn_ret = <<>>

UnusedByUsers ==
    UNCHANGED <<engineVars, authVars, fn_pc, main_pc, user_input, conversation_history,
                db_sessions, db_session_ids>>

CreateUser ==
    /\ fn_pc = "users"
    /\ Len(db_users) < MaxUserRecords
    /\ \E user_id \in UserInputs.user_id, written \in BOOLEAN :
          LET created == create_user(db_users, db_indexes, user_id, UserInputs.email, written)
          IN  /\ db_users' = created.db
              /\ fn_args' = [op |-> "create_user", user_id |-> user_id, written |-> written]
              /\ fn_ret' = created.ret
              /\ main_log' = IF created.ret # VNone
                             THEN [main_log EXCEPT ![user_id] = @ + 1]
                             ELSE main_log
    /\ UNCHANGED db_indexes
    /\ UnusedByUsers

GetUser ==
    /\ fn_pc = "users"
    /\ \E user_id \in UserInputs.user_id, reached \in BOOLEAN :
          /\ fn_args' = [op |-> "get_user", user_id |-> user_id, reached |-> reached]
          /\ fn_ret' = get_user(db_users, user_id, reached)
    /\ UNCHANGED <<db_users, db_indexes, main_log>>
    /\ UnusedByUsers

CreateIndexes ==
    /\ fn_pc = "users"
    /\ \E reached \in BOOLEAN :
          LET created == create_indexes(db_users, db_indexes, reached)
          IN  /\ db_indexes' = created.indexes
              /\ fn_args' = [op |-> "create_indexes", reached |-> reached]
              /\ fn_ret' = created.ret
    /\ UNCHANGED <<db_users, main_log>>
    /\ UnusedByUsers

NextUsers == CreateUser \/ GetUser \/ CreateIndexes

SpecUsers == InitUsers /\ [][NextUsers]_vars

\* C22: create_user returns the created record for a user id the first time
\* and None on every later call with the same id, and the collection never
\* holds two records with one user id.
C22_SecondCreateUserReturnsNone ==
    /\ \A id \in UserInputs.user_id : main_log[id] <= 1
    /\ \A id \in UserInputs.user_id : Cardinality(UsersWithId(db_users, id)) <= 1

(***************************************************************************)
(* main: the startup, lines 73-107, over several runs of the application   *)
(***************************************************************************)

MaxRuns == 2

\* MongoDBClient.health_check: the status for what the ping does
health_check(ping) ==
    IF ping = "ok" THEN "healthy"
    ELSE IF ping \in {"ConnectionFailure", "ServerSelectionTimeoutError"} THEN "unhealthy"
    ELSE "error"

\* a test that only the status "unhealthy" fails
database_not_unhealthy(status) == status # "unhealthy"

\* main, line 82: if health['status'] != 'healthy': ... return 1
database_ready(status) == status = "healthy"

\* create_session; written: insert_one did not raise PyMongoError
create_session(collection, written) ==
    IF written THEN [ret |-> VStr(NewUuid(collection)),
                     db |-> Append(collection, NewUuid(collection))]
    ELSE [ret |-> VNone, db |-> collection]

StartupInputs ==
    [ settings_loaded : BOOLEAN,
      connected       : {"ok", "ConnectionError"},
      ping            : {"ok", "ConnectionFailure", "ServerSelectionTimeoutError",
                         "OperationFailure"},
      user_read       : BOOLEAN,
      user_written    : BOOLEAN,
      session_written : BOOLEAN ]

\* main from line 73 to the first prompt or to its return: the exit code (None
\* when the loop is entered), the calls made, and the collections afterwards
startup(users, sessions, indexes, input) ==
    LET stopped(made) == [code |-> VInt(1), calls |-> made, users |-> users,
                           sessions |-> sessions]
        user    == get_user(users, PlanText.default_user, input.user_read)
        created == IF user # VNone THEN [ret |-> user, db |-> users]
                   ELSE create_user(users, indexes, PlanText.default_user, UserInputs.email,
                                    input.user_written)
        session == create_session(sessions, input.session_written)
        made    == <<"get_settings", "get_db_client", "health_check", "show_welcome",
                     "get_user">>
                     \o (IF user # VNone THEN <<>> ELSE <<"create_user">>)
                     \o <<"create_session">>
    IN  IF ~input.settings_loaded THEN stopped(<<"get_settings">>)
        ELSE IF input.connected # "ok" THEN stopped(<<"get_settings", "get_db_client">>)
        ELSE IF ~database_ready(health_check(input.ping))
        THEN stopped(<<"get_settings", "get_db_client", "health_check">>)
        ELSE [code |-> IF session.ret = VNone THEN VInt(1) ELSE VNone,
              calls |-> made, users |-> created.db, sessions |-> session.db]

InitStartup ==
    /\ EngineUnused
    /\ HarnessUnused
    /\ AuthUnused
    /\ main_pc = "start"
    /\ user_input = <<>>
    /\ conversation_history = <<>>
    /\ db_sessions = <<>>
    /\ main_log = [runs |-> 1, code |-> VNone, calls |-> <<>>, input |-> <<>>]
    /\ db_users = <<>>
    /\ db_session_ids = <<>>
    /\ db_indexes = {}

UnusedByStartup ==
    UNCHANGED <<engineVars, fnVars, authVars, user_input, conversation_history,
                db_sessions, db_indexes>>

Startup ==
    /\ main_pc = "start"
    /\ \E input \in StartupInputs :
          LET started == startup(db_users, db_session_ids, db_indexes, input)
          IN  /\ main_pc' = IF started.code = VNone THEN "input" ELSE "exited"
              /\ main_log' = [main_log EXCEPT !.code = started.code,
                                              !.calls = started.calls,
                                              !.input = input]
              /\ db_users' = started.users
              /\ db_session_ids' = started.sessions
    /\ UnusedByStartup

\* the process has ended (here also: was ended at the prompt) and is run again
Restart ==
    /\ main_pc \in {"input", "exited"}
    /\ main_log.runs < MaxRuns
    /\ main_pc' = "start"
    /\ main_log' = [runs |-> main_log.runs + 1, code |-> VNone, calls |-> <<>>,
                    input |-> <<>>]
    /\ UNCHANGED <<db_users, db_session_ids>>
    /\ UnusedByStartup

NextStartup == Startup \/ Restart

SpecStartup == InitStartup /\ [][NextStartup]_vars

StartupFails(input) ==
    \/ ~input.settings_loaded
    \/ input.connected # "ok"
    \/ health_check(input.ping) # "healthy"

\* C23: a run whose settings cannot be loaded, whose database connection
\* cannot be made, or whose health check reports a status other than
\* "healthy" ends with exit code 1, without a user or session being created
\* (no call of get_user, create_user or create_session, the collections
\* unchanged) and without entering the loop.
C23_StartupFailureExitsWithOne ==
    [][(main_pc = "start" /\ main_pc' # "start" /\ StartupFails(main_log'.input)) =>
           /\ main_pc' = "exited"
           /\ main_log'.code = VInt(1)
           /\ db_users' = db_users
           /\ db_session_ids' = db_session_ids
           /\ \A i \in 1..Len(main_log'.calls) :
                 main_log'.calls[i] \notin {"get_user", "create_user", "create_session",
                                            "show_welcome"}]_vars

\* the second run finds the user of the first and its health check reports
\* the status "error"
C23_Witness ==
    /\ main_pc = "exited"
    /\ main_log.runs = 2
    /\ main_log.code = VInt(1)
    /\ main_log.input.settings_loaded
    /\ main_log.input.connected = "ok"
    /\ health_check(main_log.input.ping) = "error"
    /\ Len(db_users) = 1
    /\ Len(db_session_ids) = 1

(***************************************************************************)
(* CredentialStore: a token encrypted and decrypted again                  *)
(***************************************************************************)

MaxTokenLen == 3

TokenChars == {"a", "b", "e'"}

TokenInputs ==
    [ token : UNION { [1..n -> TokenChars] : n \in 0..MaxTokenLen },
      iv    : {"0", "1"} ]

InitToken ==
    /\ EngineUnused
    /\ AppUnused
    /\ fn_pc = "call"
    /\ fn_args \in TokenInputs
    /\ fn_ret = <<>>

\* encrypt_token(token) is called
EncryptToken ==
    /\ fn_pc = "call"
    /\ fn_pc' = "encrypted"
    /\ fn_ret' = [encrypted |-> encrypt_token(fn_args.token, fn_args.iv)]
    /\ UNCHANGED <<fn_args, engineVars, appVars>>

\* decrypt_token is called with what encrypt_token returned, or with the
\* empty text when it returned nothing
DecryptToken ==
    /\ fn_pc = "encrypted"
    /\ fn_pc' = "ret"
    /\ fn_ret' = [encrypted |-> fn_ret.encrypted,
                  decrypted |-> decrypt_token(IF fn_ret.encrypted.raised THEN VStr(<<>>)
                                              ELSE fn_ret.encrypted.value)]
    /\ UNCHANGED <<fn_args, engineVars, appVars>>

NextToken == EncryptToken \/ DecryptToken

SpecToken == InitToken /\ [][NextToken]_vars

\* C24: for a non-empty token t, encrypt_token(t) returns and decrypt_token
\* of what it returned returns t; encrypt_token of the empty token and
\* decrypt_token of the empty ciphertext raise ValueError.
C24_DecryptInvertsEncrypt ==
    /\ fn_pc \in {"encrypted", "ret"} =>
          IF Len(fn_args.token) = 0
          THEN /\ fn_ret.encrypted.raised
               /\ fn_ret.encrypted.exc.type = AgentText.ValueError
          ELSE ~fn_ret.encrypted.raised
    /\ fn_pc = "ret" =>
          IF Len(fn_args.token) = 0
          THEN /\ fn_ret.decrypted.raised
               /\ fn_ret.decrypted.exc.type = AgentText.ValueError
          ELSE fn_ret.decrypted = Returned(VStr(fn_args.token), 0)

\* a token with a character of two bytes came back
C24_Witness ==
    /\ fn_pc = "ret"
    /\ fn_args.token = <<"a", "e'", "b">>
    /\ fn_ret.decrypted.value = VStr(fn_args.token)
    /\ Len(fn_ret.encrypted.value.s) > Len(AppText.fernet) + 1 + Len(AppText.token_salt) + 3

(***************************************************************************)
(* AgentRegistry: the required parameters of a mode and their validation   *)
(***************************************************************************)

RegistryText ==
    [ subject |-> <<"s", "u", "b", "j", "e", "c", "t">>,
      cc |-> <<"c", "c">>,
      repo_name |-> <<"r", "e", "p", "o", "_", "n", "a", "m", "e">>,
      query |-> <<"q", "u", "e", "r", "y">>,
      max_results |-> <<"m", "a", "x", "_", "r", "e", "s", "u", "l", "t",
        "s">>,
      fly |-> <<"f", "l", "y">>,
      required |-> <<" ", "(", "r", "e", "q", "u", "i", "r", "e", "d", ")">>,
      required_marker |-> <<"(", "r", "e", "q", "u", "i", "r", "e", "d",
        ")">>,
      optional |-> <<" ", "(", "o", "p", "t", "i", "o", "n", "a", "l", ")">>,
      optional_default_10 |-> <<" ", "(", "o", "p", "t", "i", "o", "n", "a",
        "l", ",", " ", "d", "e", "f", "a", "u", "l", "t", ":", " ", "1", "0",
        ")">>,
      Missing |-> <<"M", "i", "s", "s", "i", "n", "g", " ", "r", "e", "q",
        "u", "i", "r", "e", "d", " ", "p", "a", "r", "a", "m", "e", "t", "e",
        "r", "s", ":", " ">>,
      AgentType |-> <<"A", "g", "e", "n", "t", " ", "t", "y", "p", "e", " ",
        "'">>,
      AgentNotFound |-> <<"'", " ", "n", "o", "t", " ", "f", "o", "u", "n",
        "d", ".", " ", "A", "v", "a", "i", "l", "a", "b", "l", "e", " ", "a",
        "g", "e", "n", "t", "s", ":", " ">>,
      Mode |-> <<"M", "o", "d", "e", " ", "'">>,
      ModeNotFound |-> <<"'", " ", "n", "o", "t", " ", "f", "o", "u", "n",
        "d", " ", "f", "o", "r", " ", "a", "g", "e", "n", "t", " ", "'">>,
      AvailableModes |-> <<"'", ".", " ", "A", "v", "a", "i", "l", "a", "b",
        "l", "e", " ", "m", "o", "d", "e", "s", ":", " ">> ]

\* the registry document: for each agent type, for each mode, the parameter
\* descriptors in their order
ModeRegistry ==
    LET Required(name) == VStr(name \o RegistryText.required)
        Optional(name) == VStr(name \o RegistryText.optional)
        Defaulted(name) == VStr(name \o RegistryText.optional_default_10)
    IN  VMap(<<EngineText.gmail, EngineText.github>>,
             << VMap(<<AppText.read, AppText.send, AppText.search>>,
                     << VList(<<Optional(RegistryText.query),
                                Defaulted(RegistryText.max_results)>>),
                        VList(<<Required(PlanText.to), Required(RegistryText.subject),
                                Required(PlanText.body), Optional(RegistryText.cc)>>),
                        VList(<<Required(RegistryText.query),
                                Defaulted(RegistryText.max_results)>>) >>),
                VMap(<<AppText.list_repos, AppText.get_repo>>,
                     << VList(<<Defaulted(PlanText.limit)>>),
                        VList(<<Required(RegistryText.repo_name)>>) >>) >>)

\* list(d.keys()), as a list of strings
KeyList(d) == VList([i \in 1..Len(d.keys) |-> VStr(d.keys[i])])

\* AgentRegistry.get_mode_parameters, with get_agent_config
get_mode_parameters(agent_type, mode) ==
    IF ~HasKey(ModeRegistry, agent_type)
    THEN Raised(AgentText.ValueError,
                RegistryText.AgentType \o agent_type \o RegistryText.AgentNotFound
                    \o Repr(KeyList(ModeRegistry)), 0)
    ELSE LET modes == Lookup(ModeRegistry, agent_type)
         IN  IF ~HasKey(modes, mode)
             THEN Raised(AgentText.ValueError,
                         RegistryText.Mode \o mode \o RegistryText.ModeNotFound \o agent_type
                             \o RegistryText.AvailableModes \o Repr(KeyList(modes)), 0)
             ELSE Returned(Lookup(modes, mode), 0)

\* every descriptor counted as required, whatever its marker
get_all_parameters(agent_type, mode) ==
    LET mode_config == get_mode_parameters(agent_type, mode)
    IN  IF mode_config.raised THEN mode_config
        ELSE Returned(VList([i \in 1..Len(mode_config.value.items) |->
                                VStr(Strip(SplitOn(mode_config.value.items[i].s, "(")[1]))]), 0)

\* AgentRegistry.get_required_parameters
get_required_parameters(agent_type, mode) ==
    LET mode_config == get_mode_parameters(agent_type, mode)
        parameters  == mode_config.value.items
        required    == SelectSeq(parameters,
                           LAMBDA param : Contains(Lower(param.s), RegistryText.required_marker))
    IN  IF mode_config.raised THEN mode_config
        ELSE Returned(VList([i \in 1..Len(required) |->
                                VStr(Strip(SplitOn(required[i].s, "(")[1]))]), 0)

\* AgentRegistry.validate_mode_parameters: the pair it returns
validate_mode_parameters(agent_type, mode, parameters) ==
    LET required == get_required_parameters(agent_type, mode)
        missing  == SelectSeq(required.value.items, LAMBDA p : ~HasKey(parameters, p.s))
    IN  IF required.raised THEN Returned(<<VBool(FALSE), VStr(required.exc.message)>>, 0)
        ELSE IF Len(missing) > 0
        THEN Returned(<<VBool(FALSE),
                        VStr(RegistryText.Missing
                               \o Join(<<",", " ">>, [i \in 1..Len(missing) |-> missing[i].s]))>>,
                      0)
        ELSE Returned(<<VBool(TRUE), VNone>>, 0)

ParameterNames ==
    <<PlanText.to, RegistryText.subject, PlanText.body, RegistryText.cc,
      RegistryText.repo_name>>

ValidateInputs ==
    [ agent_type |-> {EngineText.gmail, EngineText.github, PlanText.slack},
      mode       |-> {AppText.send, AppText.read, AppText.get_repo, RegistryText.fly},
      parameters |-> { VMap(SelectSeq(ParameterNames, LAMBDA name : name \in given),
                            [i \in 1..Cardinality(given) |-> VStr(PlanText.peter)]) :
                          given \in SUBSET {ParameterNames[i] : i \in 1..Len(ParameterNames)} } ]

InitValidate ==
    /\ EngineUnused
    /\ AppUnused
    /\ fn_pc = "call"
    /\ fn_args \in [agent_type : ValidateInputs.agent_type, mode : ValidateInputs.mode,
                    parameters : ValidateInputs.parameters]
    /\ fn_ret = <<>>

ValidateModeParameters ==
    /\ fn_pc = "call"
    /\ fn_pc' = "ret"
    /\ fn_ret' = validate_mode_parameters(fn_args.agent_type, fn_args.mode,
                                          fn_args.parameters)
    /\ UNCHANGED <<fn_args, engineVars, appVars>>

SpecValidate == InitValidate /\ [][ValidateModeParameters]_vars

\* the required parameters of the registry's modes, as the registry document
\* declares them
RequiredNames(agent_type, mode) ==
    IF agent_type = EngineText.gmail /\ mode = AppText.send
    THEN <<PlanText.to, RegistryText.subject, PlanText.body>>
    ELSE IF agent_type = EngineText.gmail /\ mode = AppText.search
    THEN <<RegistryText.query>>
    ELSE IF agent_type = EngineText.github /\ mode = AppText.get_repo
    THEN <<RegistryText.repo_name>>
    ELSE <<>>

KnownMode(agent_type, mode) ==
    \/ agent_type = EngineText.gmail /\ mode \in {AppText.read, AppText.send, AppText.search}
    \/ agent_type = EngineText.github /\ mode \in {AppText.list_repos, AppText.get_repo}

\* C25: validate_mode_parameters never raises; for a mode of the registry it
\* returns (False, "Missing required parameters: " and exactly the required
\* parameters absent from the supplied map, in the registry's order) when one
\* is absent, and (True, None) when all are present, whatever other
\* parameters are supplied; for an unknown agent type or mode it returns
\* (False, message).
C25_ValidationNamesExactlyTheMissing ==
    fn_pc = "ret" =>
        /\ ~fn_ret.raised
        /\ IF KnownMode(fn_args.agent_type, fn_args.mode)
           THEN LET absent == SelectSeq(RequiredNames(fn_args.agent_type, fn_args.mode),
                                        LAMBDA name : ~HasKey(fn_args.parameters, name))
                IN  IF Len(absent) > 0
                    THEN fn_ret.value = <<VBool(FALSE),
                                          VStr(RegistryText.Missing \o Join(<<",", " ">>, absent))>>
                    ELSE fn_ret.value = <<VBool(TRUE), VNone>>
           ELSE /\ fn_ret.value[1] = VBool(FALSE)
                /\ fn_ret.value[2].k = "str"

\* gmail.send without subject and body, with the optional cc supplied
C25_Witness ==
    /\ fn_pc = "ret"
    /\ fn_args.agent_type = EngineText.gmail
    /\ fn_args.mode = AppText.send
    /\ fn_args.parameters.keys = <<PlanText.to, RegistryText.cc>>
    /\ fn_ret.value[1] = VBool(FALSE)
    /\ Contains(fn_ret.value[2].s, RegistryText.subject \o <<",", " ">> \o PlanText.body)

(***************************************************************************)
(* ExecutionContext: the summary of the stored results                     *)
(***************************************************************************)

\* ExecutionContext.get_successful_tasks and get_failed_tasks: the task ids
\* whose result has the given status
TasksWithStatus(ctx, status) ==
    SelectSeq(ctx.keys, LAMBDA task_id : StatusOf(Lookup(ctx, task_id)) = VStr(status))

get_successful_tasks(ctx) == TasksWithStatus(ctx, AgentText.success)

get_failed_tasks(ctx) == TasksWithStatus(ctx, AgentText.error)

\* ExecutionContext.get_summary: its three counts
get_summary(ctx) ==
    [total_tasks      |-> Len(ctx.keys),
     successful_tasks |-> Len(get_successful_tasks(ctx)),
     failed_tasks     |-> Len(get_failed_tasks(ctx))]

\* C40: in every state of the execution context of a command the summary's
\* successful_tasks plus failed_tasks is its total_tasks, and total_tasks is
\* the number of distinct task ids that have a stored result: a result stored
\* for an id already present takes the place of the earlier one.
C40_SummaryCountsAddUp ==
    pc # "unused" =>
        LET summary == get_summary(context)
        IN  /\ summary.successful_tasks + summary.failed_tasks = summary.total_tasks
            /\ summary.total_tasks = Cardinality(ElementsOf(context.keys))
            /\ summary.total_tasks <= Len(tasks)

\* the agent's success was stored, the status update then failed, and the
\* error result took the place of the success under the same id
C40_Witness ==
    /\ pc # "unused"
    /\ ~env.db_connected
    /\ \E i \in 1..Len(tasks) :
          /\ calls[i].invoked
          /\ AgentSucceeds(tasks[i])
          /\ StatusOf(get_result(context, tasks[i].id)) = VStr(AgentText.error)
    /\ get_summary(context).failed_tasks = 1
    /\ get_summary(context).total_tasks = 1

(***************************************************************************)
(* The parser's plan handed to the engine's ordering                       *)
(***************************************************************************)

\* answers of the model in which two tasks carry the same id
RepeatedIdOutputs ==
    LET TaskData(id, mode, dependencies) ==
            VMap(<<AppText.id, AppText.agent_type, AppText.mode, AppText.dependencies>>,
                 <<VStr(id), VStr(EngineText.gmail), VStr(mode),
                   VList([j \in 1..Len(dependencies) |-> VStr(dependencies[j])])>>)
        TaskLists ==
            { << TaskData(PlanText.task_1, AppText.read, <<>>),
                 TaskData(PlanText.task_1, AppText.send, <<>>) >>,
              << TaskData(PlanText.task_1, AppText.read, <<>>),
                 TaskData(PlanText.task_1, AppText.send, <<PlanText.task_1>>) >>,
              << TaskData(PlanText.task_1, AppText.read, <<PlanText.task_2>>),
                 TaskData(PlanText.task_2, AppText.read, <<>>),
                 TaskData(PlanText.task_2, AppText.send, <<PlanText.task_1>>) >> }
    IN  { [json |-> TRUE,
           parsed |-> VMap(<<AppText.tasks, AppText.execution_type>>,
                           <<VList(task_list), VStr(execution)>>)] :
            task_list \in TaskLists,
            execution \in {AppText.parallel, AppText.sequential} }

InitPlan ==
    /\ fn_pc = "call"
    /\ fn_args \in ModelOutputs \cup RepeatedIdOutputs
    /\ fn_ret = <<>>
    /\ EngineUnused
    /\ AppUnused

\* _execute_sequential, lines 440-445: the graph of the plan's tasks and its
\* topological order
OrderPlan ==
    /\ fn_pc = "ret"
    /\ ~fn_ret.raised
    /\ fn_pc' = "ordered"
    /\ fn_ret' = [plan |-> fn_ret.value,
                  order |-> topological_sort(build_task_graph(fn_ret.value.tasks))]
    /\ UNCHANGED <<fn_args, engineVars, appVars>>

NextPlan == ParseResponse \/ OrderPlan

SpecPlan == InitPlan /\ [][NextPlan]_vars

\* C32: no two tasks of a plan that parse_intent returns share an id.
C32_TaskIdsUnique ==
    (fn_pc = "ret" /\ ~fn_ret.raised) =>
        \A i, j \in 1..Len(fn_ret.value.tasks) :
            fn_ret.value.tasks[i].id = fn_ret.value.tasks[j].id => i = j

\* C34: for every plan parse_intent has accepted, _topological_sort raises
\* nothing and returns an order that holds the id of every task of the plan
\* exactly once, every dependency of a task standing before the task.
C34_AcceptedPlansAreOrdered ==
    fn_pc = "ordered" =>
        LET plan_tasks == fn_ret.plan.tasks
            order == fn_ret.order
            Place(id) == CHOOSE k \in 1..Len(order.value) : order.value[k] = id
        IN  /\ ~order.raised
            /\ Len(order.value) = Len(plan_tasks)
            /\ \A i \in 1..Len(plan_tasks) :
                  /\ CountOf(order.value, plan_tasks[i].id) = 1
                  /\ \A j \in 1..Len(plan_tasks[i].dependencies) :
                        Place(plan_tasks[i].dependencies[j]) < Place(plan_tasks[i].id)

(***************************************************************************)
(* Dependencies and the start of a task                                    *)
(***************************************************************************)

\* C37: in a plan that passes the parser's checks of a task (agent known,
\* every dependency a task of the plan, no cycle), no task is handed to its
\* agent before each of its dependencies has a stored result, whatever the
\* execution_type.
C37_DependenciesStoredBeforeStart ==
    (/\ pc # "unused"
     /\ \A i \in 1..Len(tasks) :
           /\ HasKey(Registry, tasks[i].agent_type)
           /\ ElementsOf(tasks[i].dependencies) \subseteq TaskIdsOf(tasks)
           /\ ~check_circular_dependencies(tasks[i], tasks)) =>
        \A i \in 1..Len(tasks) :
            calls[i].invoked =>
                ElementsOf(tasks[i].dependencies) \subseteq ElementsOf(calls[i].stored)

(***************************************************************************)
(* The return of a sequential execution                                    *)
(***************************************************************************)

\* C35: when execute has returned for a plan that is not parallel, every task
\* of the plan has exactly one stored result, the results list holds one
\* entry per task, the k-th being the stored result of the k-th task of the
\* executed order, and the summary's total_tasks is the number of tasks.
C35_SequentialReturnComplete ==
    (pc = "returned" /\ execution_type # "parallel") =>
        /\ \A i \in 1..Len(tasks) : CountOf(context.keys, tasks[i].id) = 1
        /\ Len(results) = Len(tasks)
        /\ Len(ordered_task_ids) = Len(tasks)
        /\ \A k \in 1..Len(results) :
              /\ results[k] = get_result(context, ordered_task_ids[k])
              /\ StatusOf(results[k]) \in {VStr(AgentText.success), VStr(AgentText.error)}
        /\ get_summary(context).total_tasks = Len(tasks)

\* three tasks: one succeeded, one failed in its agent, one was refused for
\* its failed dependency
C35_Witness ==
    /\ pc = "returned"
    /\ execution_type # "parallel"
    /\ Len(tasks) = 3
    /\ \E k \in 1..Len(results) : StatusOf(results[k]) = VStr(AgentText.success)
    /\ \E k \in 1..Len(results) : ErrorTypeOf(results[k]) = VStr(EngineText.DependencyError)
    /\ \E k \in 1..Len(results) :
          /\ StatusOf(results[k]) = VStr(AgentText.error)
          /\ ErrorTypeOf(results[k]) # VStr(EngineText.DependencyError)

(***************************************************************************)
(* What data extraction changes                                            *)
(***************************************************************************)

\* C38: no step of the engine adds or removes a key of a task's parameters;
\* a parameter changes its value only in the sequential loop, in the task
\* about to run, and only if it is a string holding the placeholder of an
\* extracted name or if its own name is an extracted name; in parallel mode
\* no parameter of any task changes.
C38_ExtractionFrame ==
    [][pc # "unused" =>
          /\ Len(tasks') = Len(tasks)
          /\ \A i \in 1..Len(tasks) :
                LET old == tasks[i].parameters
                    new == tasks'[i].parameters
                    extracted == extract_required_data(context, tasks[i].required_inputs)
                IN  /\ new.keys = old.keys
                    /\ \A k \in 1..Len(old.keys) :
                          new.items[k] # old.items[k] =>
                              /\ execution_type # "parallel"
                              /\ pc = "sequential"
                              /\ cursor <= Len(ordered_task_ids)
                              /\ tasks[i].id = ordered_task_ids[cursor]
                              /\ Truthy(tasks[i].required_inputs)
                              /\ \/ /\ old.items[k].k = "str"
                                    /\ \E j \in 1..Len(extracted.keys) :
                                          Contains(old.items[k].s,
                                                   <<"{">> \o extracted.keys[j] \o <<"}">>)
                                 \/ HasKey(extracted, old.keys[k])]_vars

\* the second task has run after extraction: its body was filled from the
\* list of the first task, first_repo was replaced outright by the extracted
\* text, and the address, which names no extracted value, is the plan's
C38_Witness ==
    /\ pc = "returned"
    /\ execution_type = "sequential"
    /\ Len(tasks) = 2
    /\ calls[2].invoked
    /\ tasks[2].parameters.keys = <<PlanText.to, PlanText.body, PlanText.first_repo>>
    /\ Lookup(tasks[2].parameters, PlanText.to) = VStr(PlanText.peter)
    /\ ~HasChar(Lookup(tasks[2].parameters, PlanText.body).s, "{")
    /\ Lookup(tasks[2].parameters, PlanText.first_repo) = VStr(RepoName(1))

(***************************************************************************)
(* check_gmail_auth on its own                                             *)
(***************************************************************************)

\* the latest current time of a check, in minutes
MaxMinutes == 8

\* what is stored for (user, gmail), whether the database read reaches it
\* (get_credentials degrades to None otherwise), and the current time
CheckInputs ==
    [ stored : {VNone} \cup { credentials_doc(AppText.ya29_a, VStr(AppText.refresh_1),
                                              token_expiry, "0") :
                                token_expiry \in {VNone} \cup
                                    { VInt(n) : n \in 0..(MaxMinutes + 6) } },
      reached : BOOLEAN,
      now : 0..MaxMinutes ]

InitCheck ==
    /\ fn_pc = "call"
    /\ fn_args \in CheckInputs
    /\ fn_ret = <<>>
    /\ EngineUnused
    /\ AppUnused

CheckGmailAuth ==
    /\ fn_pc = "call"
    /\ fn_pc' = "ret"
    /\ fn_ret' = check_gmail_auth(IF fn_args.reached THEN fn_args.stored ELSE VNone,
                                  fn_args.now)
    /\ UNCHANGED <<fn_args, engineVars, appVars>>

NextCheck == CheckGmailAuth

SpecCheck == InitCheck /\ [][NextCheck]_vars

C39_FailedRefreshPropagates ==
    (/\ auth_log.calls > 0
     /\ auth_log.service = "gmail"
     /\ auth_log.read # VNone
     /\ needs_refresh(auth_log.read.token_expiry, auth_log.now)) =>
        LET refresh_token == decrypt_token(auth_log.read.encrypted_refresh_token)
            Untouched == /\ auth_pc = "idle"
                         /\ auth_log.path = "refresh"
                         /\ auth_log.flows = 0
                         /\ auth_log.exchanges = 0
                         /\ auth_log.waited = "none"
                         /\ auth_log.stores = <<>>
                         /\ db_credentials = auth_log.before
        IN  /\ refresh_token.raised =>
                  /\ auth_log.ret = refresh_token
                  /\ auth_log.ret.exc.type = AgentText.ValueError
                  /\ auth_log.refreshes = 0
                  /\ Untouched
            /\ (~refresh_token.raised /\ auth_log.stores = <<>>) =>
                  /\ auth_log.ret.raised
                  /\ auth_log.ret.exc = [type |-> RaisedText.Exception,
                                         message |-> AppText.TokenRefreshFailed]
                  /\ auth_log.refreshes = 1
                  /\ Untouched

\* the stored refresh token does not decrypt: ValueError, record untouched
C39_Witness ==
    /\ auth_log.calls > 0
    /\ auth_log.service = "gmail"
    /\ auth_log.read # VNone
    /\ auth_log.read.encrypted_refresh_token = VStr(AppText.not_a_token)
    /\ auth_log.ret.raised
    /\ auth_log.ret.exc.message = AppText.DecryptFailed
    /\ db_credentials = auth_log.before

(***************************************************************************)
(* Two interactive authorizations at the same time                         *)
(*                                                                         *)
(* _execute_parallel_async runs the tasks of a parallel plan in threads of *)
(* the default executor.  A gmail task and a github task that both need   *)
(* the interactive flow run initiate_gmail_oauth and initiate_github_oauth *)
(* side by side; both use the class attributes of OAuthCallbackHandler and *)
(* the port 8080.  Every statement that reads or writes the shared state   *)
(* is a step of its own.                                                   *)
(***************************************************************************)

Attempts == {"gmail", "github"}

\* the authorization code the provider of an attempt hands out
CodeOf(a) == VStr(AppText.auth_code \o (IF a = "gmail" THEN EngineText.gmail
                                        ELSE EngineText.github))

NoAttempt == [delivered |-> VNone, waited |-> "none", exchanged |-> VNone,
              ret |-> Returned(VNone, 0)]

InitRace ==
    /\ EngineUnused
    /\ HarnessUnused
    /\ main_pc = "unused"
    /\ user_input = <<>>
    /\ conversation_history = <<>>
    /\ db_sessions = <<>>
    /\ main_log = <<>>
    /\ DataUnused
    /\ db_credentials = <<>>
    /\ callback_server = [owner |-> "none", state |-> "closed"]
    /\ callback_handler = [authorization_code |-> VNone, oauth_error |-> VNone]
    /\ auth_pc = [a \in Attempts |-> "start"]
    /\ auth_log = [a \in Attempts |-> NoAttempt]

RaceFrame == UNCHANGED <<db_credentials, engineVars, fnVars, main_pc, user_input,
                         conversation_history, db_sessions, main_log, dataVars>>

\* the listener of an attempt that ends: the socket is released with the
\* server object once its thread has handled a request; a thread still in
\* handle_request keeps it
released(a) ==
    IF callback_server.state # "closed" /\ callback_server.owner = a
          /\ callback_server.state = "handled"
    THEN [owner |-> "none", state |-> "closed"] ELSE callback_server

\* initiate_*_oauth, "Reset callback handler": both class attributes set to None
ResetHandler(a) ==
    /\ auth_pc[a] = "start"
    /\ callback_handler' = [authorization_code |-> VNone, oauth_error |-> VNone]
    /\ auth_pc' = [auth_pc EXCEPT ![a] = "reset"]
    /\ UNCHANGED <<callback_server, auth_log>>
    /\ RaceFrame

\* HTTPServer(('localhost', 8080), ...) and the start of the server thread:
\* OSError when another listener holds the port
BindServer(a) ==
    /\ auth_pc[a] = "reset"
    /\ IF callback_server.state # "closed"
       THEN /\ auth_pc' = [auth_pc EXCEPT ![a] = "done"]
            /\ auth_log' = [auth_log EXCEPT
                              ![a].ret = Raised(AppText.OSError, AppText.AddressInUse, 0)]
            /\ UNCHANGED callback_server
       ELSE /\ auth_pc' = [auth_pc EXCEPT ![a] = "waiting"]
            /\ callback_server' = [owner |-> a, state |-> "listening"]
            /\ UNCHANGED auth_log
    /\ UNCHANGED callback_handler
    /\ RaceFrame

\* the server thread of attempt a handles the redirect of its provider
HandleCallback(a) ==
    /\ callback_server.state # "closed"
    /\ callback_server.owner = a
    /\ callback_server.state = "listening"
    /\ \E answered \in AuthInputs.callbacks :
          LET params == [answered EXCEPT !.code = IF @ = VNone THEN VNone ELSE CodeOf(a)]
          IN  /\ callback_handler' = do_GET(callback_handler, params)
              /\ auth_log' = [auth_log EXCEPT ![a].delivered = params]
    /\ callback_server' = [callback_server EXCEPT !.state = "handled"]
    /\ UNCHANGED auth_pc
    /\ RaceFrame

\* server_thread.join(timeout=300) returns: the request was handled, or the
\* five minutes are over
JoinEnds(a) ==
    /\ auth_pc[a] = "waiting"
    /\ auth_pc' = [auth_pc EXCEPT ![a] = "joined"]
    /\ auth_log' = [auth_log EXCEPT
                      ![a].waited = IF callback_server.state # "closed"
                                       /\ callback_server.owner = a
                                       /\ callback_server.state = "handled"
                                    THEN "callback" ELSE "timeout"]
    /\ UNCHANGED <<callback_server, callback_handler>>
    /\ RaceFrame

\* if OAuthCallbackHandler.oauth_error: raise
ReadError(a) ==
    /\ auth_pc[a] = "joined"
    /\ IF Truthy(callback_handler.oauth_error)
       THEN /\ auth_pc' = [auth_pc EXCEPT ![a] = "done"]
            /\ auth_log' = [auth_log EXCEPT
                              ![a].ret = Raised(RaisedText.Exception,
                                                AppText.OAuthError
                                                    \o callback_handler.oauth_error.s, 0)]
            /\ callback_server' = released(a)
       ELSE /\ auth_pc' = [auth_pc EXCEPT ![a] = "checked"]
            /\ UNCHANGED <<auth_log, callback_server>>
    /\ UNCHANGED callback_handler
    /\ RaceFrame

\* if not OAuthCallbackHandler.authorization_code: raise
ReadCode(a) ==
    /\ auth_pc[a] = "checked"
    /\ IF ~Truthy(callback_handler.authorization_code)
       THEN /\ auth_pc' = [auth_pc EXCEPT ![a] = "done"]
            /\ auth_log' = [auth_log EXCEPT
                              ![a].ret = Raised(RaisedText.Exception,
                                                RaisedText.OAuthTimedOut, 0)]
            /\ callback_server' = released(a)
       ELSE /\ auth_pc' = [auth_pc EXCEPT ![a] = "exchange"]
            /\ UNCHANGED <<auth_log, callback_server>>
    /\ UNCHANGED callback_handler
    /\ RaceFrame

\* the exchange: the class attribute is read once more for the request
ExchangeCode(a) ==
    /\ auth_pc[a] = "exchange"
    /\ auth_pc' = [auth_pc EXCEPT ![a] = "done"]
    /\ auth_log' = [auth_log EXCEPT
                      ![a].exchanged = callback_handler.authorization_code,
                      ![a].ret = Returned(callback_handler.authorization_code, 0)]
    /\ callback_server' = released(a)
    /\ UNCHANGED callback_handler
    /\ RaceFrame

NextRace ==
    \E a \in Attempts :
        \/ ResetHandler(a)
        \/ BindServer(a)
        \/ HandleCallback(a)
        \/ JoinEnds(a)
        \/ ReadError(a)
        \/ ReadCode(a)
        \/ ExchangeCode(a)

SpecRace == InitRace /\ [][NextRace]_vars

\* C36: of two attempts running side by side, one whose callback delivered a
\* code ends by exchanging exactly that code, neither timed out nor failed
\* by the error of the other; no attempt exchanges a code or reports an
\* error that its own callback did not deliver.
C36_AttemptsIsolated ==
    \A a \in Attempts :
        /\ (/\ auth_pc[a] = "done"
            /\ auth_log[a].waited = "callback"
            /\ auth_log[a].delivered.code # VNone) =>
              /\ ~auth_log[a].ret.raised
              /\ auth_log[a].exchanged = auth_log[a].delivered.code
        /\ auth_log[a].exchanged # VNone =>
              /\ auth_log[a].delivered # VNone
              /\ auth_log[a].exchanged = auth_log[a].delivered.code
        /\ (auth_log[a].ret.raised
               /\ auth_log[a].ret.exc.message # RaisedText.OAuthTimedOut
               /\ auth_log[a].ret.exc.type # AppText.OSError) =>
              /\ auth_log[a].delivered # VNone
              /\ auth_log[a].delivered.error # VNone

(***************************************************************************)
(* GitHubAgent: the counter of API calls and the requests made             *)
(*                                                                         *)
(* calls is the value of _api_call_count when the mode's method ends,      *)
(* requests the number of calls it made on the GitHub client that send a  *)
(* request.  The requests of authenticate are left out of both.            *)
(***************************************************************************)

\* what the account holds and how the API answers
GithubInputs ==
    [ mode : {AppText.list_repos, AppText.get_repo},
      available : 0..MaxRepos,
      limit : 0..MaxRepos,
      contributors : 0..MaxRepos,
      has_readme : BOOLEAN,
      limited : BOOLEAN ]

\* GitHubAgent._check_rate_limit: one increment, one get_rate_limit
check_rate_limit == [calls |-> 1, requests |-> 1]

\* GitHubAgent._handle_rate_limit_error: get_rate_limit once more, then the
\* exception
handle_rate_limit_error(counted, sent) ==
    [outcome |-> Raised(RaisedText.Exception, RaisedText.RateLimited, counted),
     requests |-> sent + 1]

\* GitHubAgent._handle_github_error: the exception for the status, no request
handle_github_error(counted, sent) ==
    [outcome |-> Raised(RaisedText.Exception, RaisedText.RateLimited, counted),
     requests |-> sent]

\* GitHubAgent._list_repositories: the rate limit check, the listing, and one
\* increment for every repository taken from it
list_repositories(input) ==
    LET rate == check_rate_limit
        taken == IF input.available < input.limit THEN input.available ELSE input.limit
    IN  IF input.limited
        THEN handle_rate_limit_error(rate.calls + 1, rate.requests + 1)
        ELSE [outcome |-> Returned(VMap(<<PlanText.count>>, <<VInt(taken)>>),
                                   rate.calls + 1 + taken),
              requests |-> rate.requests + 1]

\* GitHubAgent._get_repository: the rate limit check, get_repo, the topics
\* read by _parse_repository, the languages, the contributors with one
\* increment for each of the first five, and the README with one increment
\* for get_readme and one for decoding its content
get_repository(input) ==
    LET rate == check_rate_limit
        top == IF input.contributors < 5 THEN input.contributors ELSE 5
    IN  IF input.limited
        THEN handle_github_error(rate.calls + 1, rate.requests + 1)
        ELSE [outcome |-> Returned(VMap(<<PlanText.count>>, <<VInt(top)>>),
                                   rate.calls + 1 + 1 + 1 + (1 + top)
                                       + (IF input.has_readme THEN 2 ELSE 1)),
              requests |-> rate.requests + 1 + 1 + 1 + 1 + 1]

InitGithub ==
    /\ fn_pc = "call"
    /\ fn_args \in GithubInputs
    /\ fn_ret = <<>>
    /\ EngineUnused
    /\ AppUnused

\* BaseAgent.execute_task of the GitHub agent for a task of the given mode
ExecuteGithubTask ==
    /\ fn_pc = "call"
    /\ LET self == [agent_type |-> EngineText.github, user_id |-> PlanText.default_user,
                    oauth_required |-> TRUE]
           step == IF fn_args.mode = AppText.list_repos THEN list_repositories(fn_args)
                   ELSE get_repository(fn_args)
           behaviour == [authenticate |-> Returned(VBool(TRUE), 0),
                         validate_parameters |-> Returned(VBool(TRUE), 0),
                         execute |-> step.outcome]
       IN  fn_ret' = [result |-> execute_task(self, [agent_type |-> EngineText.github],
                                              behaviour).value,
                      requests |-> step.requests]
    /\ fn_pc' = "ret"
    /\ UNCHANGED <<fn_args, engineVars, appVars>>

NextGithub == ExecuteGithubTask

SpecGithub == InitGithub /\ [][NextGithub]_vars

\* C31: the api_calls of the result envelope of an invocation is the number
\* of requests the invocation sent.
C31_ApiCallsCountRequests ==
    fn_pc = "ret" =>
        Lookup(Lookup(fn_ret.result, AgentText.metadata), AgentText.api_calls)
            = VInt(fn_ret.requests)

====
